---- MODULE Spec2Model ----
(***************************************************************************)
(* Contributor Trust Evaluation Engine (jdiegosierra/contributor-report).  *)
(*                                                                         *)
(* Four state machines share this module:                                  *)
(*   Spec      the GitHub client: executeGraphQL (pre-call gate, retry     *)
(*             loop, rate-limit bookkeeping), fetchContributorData         *)
(*             (pagination and window filter), checkOrgMembership,         *)
(*             getRateLimitStatus, and the generic executeWithRetry.       *)
(*   SpecEval  the evaluation engine: extractAllMetrics (suspicious        *)
(*             pattern detection), checkAllMetrics, determinePassStatus,   *)
(*             evaluateContributor.                                        *)
(*   SpecRun   the action's entry point run(): whitelist, organisation     *)
(*             membership, fetch, evaluation, outputs, comment, label,     *)
(*             and the catch that marks the action failed.                 *)
(*   SpecFunctions  the pure functions applied to inputs of their own:     *)
(*             shouldWait and calculateWaitTime on a status and a clock,   *)
(*             extractRepoHistoryData and extractReactionData on fetched   *)
(*             data.                                                       *)
(* Times are in milliseconds.                                              *)
(***************************************************************************)
EXTENDS Integers, Sequences, FiniteSets, TLC

VARIABLES
    op,               \* client operation in progress: "none", "fetch", "org", "rate", "retry"
    pc,               \* position: "idle", "gate", "call", "fn"
    phase,            \* fetchContributorData: "first", "prPage", "commentPage"; otherwise "-"
    opsLeft,          \* operations the caller may still start
    srv,              \* what the server (and fn) may answer in this run
    rateLimitStatus,  \* GitHubClient.rateLimitStatus
    now,              \* latest reading of the clock (new Date())
    attempt,          \* loop variable of the running retry loop
    maxRetries,       \* bound of the running retry loop
    lastError,        \* lastError of the running retry loop
    fnCalls,          \* physical calls made by the running logical call
    backoffs,         \* backoff sleeps of the running logical call, in order
    gateWait,         \* what the pre-call gate did: GateNone, or the ms handed to waitWithLogging
    prev,             \* step that immediately precedes the next physical call
    lastCall,         \* outcome of the latest physical call
    fetch,            \* local variables of fetchContributorData
    orgsLeft,         \* organisations checkOrgMembership still has to ask
    result,           \* how the latest operation ended
    evalPc,           \* evaluation engine: "off", "start", "configured", "done"
    config,           \* ContributorQualityConfig
    metricsData,      \* AllMetricsData
    metrics,          \* MetricCheckResult[]
    analysis,         \* AnalysisResult
    run               \* run(): position, and what the action has reported so far

clientVars == <<op, pc, phase, opsLeft, srv, rateLimitStatus, now, attempt, maxRetries,
                lastError, fnCalls, backoffs, gateWait, prev, lastCall, fetch, orgsLeft, result>>
evalVars == <<evalPc, config, metricsData, metrics, analysis>>
vars == <<clientVars, evalVars, run>>

---------------------------------------------------------------------------
(* Bounds of the exploration *)

MaxOps == 2           \* client operations per run
MaxRetriesArg == 8    \* largest maxRetries handed to executeWithRetry
MaxOrgs == 2          \* largest trusted-organisation list
MaxPRs == 3           \* longest pull-request list handed to an extractor on its own
MaxComments == 2      \* longest comment list, and longest reaction list of one comment

---------------------------------------------------------------------------
(* Rate-limit governor: src/src/api/rate-limit.ts *)

RATE_LIMIT_THRESHOLD == 100
MAX_WAIT_TIME == 60000
DEFAULT_LIMIT == 5000
MaxRetriesFour == 3 + 1
MAX_RETRIES == 3

Min(a, b) == IF a <= b THEN a ELSE b

RECURSIVE Pow2(_)
Pow2(n) == IF n <= 0 THEN 1 ELSE 2 * Pow2(n - 1)

Null == [isNull |-> TRUE]
Absent == [absent |-> TRUE]
Undefined == [id |-> "undefined", instanceofError |-> FALSE, message |-> "", status |-> 0]

\* new Date(isoString).getTime(): the instant an ISO-8601 string denotes
DateParse(s) ==
    CASE s = "1970-01-01T00:00:50Z" -> 50000
      [] s = "1970-01-01T00:03:20Z" -> 200000
      [] s = "1970-01-01T00:00:10Z" -> 10000
      [] s = "1970-01-01T00:01:00Z" -> 60000
      [] s = "1970-01-01T00:01:30Z" -> 90000
      [] OTHER -> 0

CalculateWaitTimeUncapped(rateLimit, clock) ==
    IF rateLimit.remaining > RATE_LIMIT_THRESHOLD THEN 0
    ELSE LET msUntilReset == rateLimit.resetAt - clock
         IN  IF msUntilReset <= 0 THEN 0 ELSE msUntilReset
ShouldWaitAtThreshold(rateLimit) == rateLimit.remaining <= RATE_LIMIT_THRESHOLD
ShouldWaitInverted(rateLimit) == rateLimit.remaining > RATE_LIMIT_THRESHOLD
shouldWait(rateLimit) == rateLimit.remaining < RATE_LIMIT_THRESHOLD

calculateWaitTime(rateLimit, clock) ==
    IF rateLimit.remaining > RATE_LIMIT_THRESHOLD THEN 0
    ELSE LET msUntilReset == rateLimit.resetAt - clock
         IN  IF msUntilReset <= 0 THEN 0 ELSE Min(msUntilReset, MAX_WAIT_TIME)

ParseRateLimitKeepsLimit(rateLimitData) ==
    IF rateLimitData = Absent THEN Null
    ELSE [remaining |-> rateLimitData.remaining,
          resetAt   |-> DateParse(rateLimitData.resetAt),
          used      |-> rateLimitData.used,
          limit     |-> rateLimitData.limit]
parseRateLimit(rateLimitData) ==
    IF rateLimitData = Absent THEN Null
    ELSE [remaining |-> rateLimitData.remaining,
          resetAt   |-> DateParse(rateLimitData.resetAt),
          used      |-> rateLimitData.used,
          limit     |-> IF rateLimitData.limit = 0 THEN DEFAULT_LIMIT ELSE rateLimitData.limit]

\* error.message.toLowerCase()
ToLowerCase(message) ==
    CASE message = "API rate limit exceeded" -> "api rate limit exceeded"
      [] message = "ECONNRESET" -> "econnreset"
      [] message = "503 Service Unavailable" -> "503 service unavailable"
      [] message = "Request failed" -> "request failed"
      [] message = "Not found" -> "not found"
      [] message = "rate limit string" -> "rate limit string"
      [] OTHER -> message

\* the needles of isRateLimitError and isTransientError that occur in a lower-cased message
Needles(lower) ==
    CASE lower = "api rate limit exceeded" -> {"rate limit", "api rate limit"}
      [] lower = "econnreset" -> {"econnreset"}
      [] lower = "503 service unavailable" -> {"\\b503\\b", "service unavailable"}
      [] lower = "rate limit string" -> {"rate limit"}
      [] OTHER -> {}

Includes(lower, needle) == needle \in Needles(lower)

isRateLimitError(error) ==
    IF error.instanceofError
    THEN LET message == ToLowerCase(error.message)
         IN  \/ Includes(message, "rate limit")
             \/ Includes(message, "api rate limit")
             \/ Includes(message, "secondary rate limit")
    ELSE FALSE

isTransientError(error) ==
    IF error.instanceofError
    THEN LET message == ToLowerCase(error.message)
         IN  \/ \E n \in {"econnreset", "etimedout", "enotfound", "socket hang up",
                          "network", "fetch failed"} : Includes(message, n)
             \/ \E n \in {"\\b500\\b", "\\b502\\b", "\\b503\\b", "\\b504\\b",
                          "internal server error", "bad gateway", "service unavailable",
                          "gateway timeout"} : Includes(message, n)
             \/ (error.status >= 500 /\ error.status < 600)
    ELSE FALSE

\* waitTime of handleRateLimitError / handleTransientError
HandleRateLimitErrorUncapped(k) == 1000 * Pow2(k)
handleRateLimitError(k) == Min(1000 * Pow2(k), 60000)
handleTransientError(k) == Min(500 * Pow2(k), 30000)

\* The catch block of the retry loops: what happens after attempt k failed with error
\* when the loop is bounded by max.  "throw" rethrows error, "backoff" sleeps wait ms.
IsFinalAttemptNever(k, max) == FALSE
IsFinalAttempt(k, max) == k = max - 1

CatchRetriesEverything(error, k, max) ==
    IF IsFinalAttempt(k, max) THEN [do |-> "throw", wait |-> 0]
    ELSE IF isRateLimitError(error) THEN [do |-> "backoff", wait |-> handleRateLimitError(k)]
    ELSE [do |-> "backoff", wait |-> handleTransientError(k)]
Catch(error, k, max) ==
    IF IsFinalAttempt(k, max) THEN [do |-> "throw", wait |-> 0]
    ELSE IF isRateLimitError(error) THEN [do |-> "backoff", wait |-> handleRateLimitError(k)]
    ELSE IF isTransientError(error) THEN [do |-> "backoff", wait |-> handleTransientError(k)]
    ELSE [do |-> "throw", wait |-> 0]

---------------------------------------------------------------------------
(* The environment: errors, rate-limit telemetry, pages *)

Errors ==
    { [id |-> "rateLimit",  instanceofError |-> TRUE,  message |-> "API rate limit exceeded", status |-> 0],
      [id |-> "econnreset", instanceofError |-> TRUE,  message |-> "ECONNRESET",              status |-> 0],
      [id |-> "http503",    instanceofError |-> TRUE,  message |-> "503 Service Unavailable", status |-> 0],
      [id |-> "status502",  instanceofError |-> TRUE,  message |-> "Request failed",          status |-> 502],
      [id |-> "notFound",   instanceofError |-> TRUE,  message |-> "Not found",               status |-> 404],
      [id |-> "string",     instanceofError |-> FALSE, message |-> "rate limit string",       status |-> 0] }

UserNotFound == [id |-> "userNotFound", instanceofError |-> TRUE, message |-> "User not found", status |-> 0]

\* rateLimit objects of a response; limit 0 stands for a response without the limit field.
\* CONTRIBUTOR_DATA_QUERY asks for remaining, resetAt, used; RATE_LIMIT_QUERY also for limit.
RateLimitPayloads ==
    { [remaining |-> 50,  resetAt |-> "1970-01-01T00:00:50Z", used |-> 4950,  limit |-> 0],
      [remaining |-> 100, resetAt |-> "1970-01-01T00:03:20Z", used |-> 4900,  limit |-> 0],
      [remaining |-> 99,  resetAt |-> "1970-01-01T00:03:20Z", used |-> 901,   limit |-> 1000],
      [remaining |-> 150, resetAt |-> "1970-01-01T00:00:50Z", used |-> 14850, limit |-> 15000] }

ContributorQueryPayloads == {r \in RateLimitPayloads : r.limit = 0}
RateLimitQueryPayloads == {r \in RateLimitPayloads : r.limit # 0}

NowValues == {0, 100000}

\* start of the analysis window
SinceDate == DateParse("1970-01-01T00:01:00Z")

CreatedAtStrings == {"1970-01-01T00:00:10Z", "1970-01-01T00:01:00Z"}

\* What one run's server may answer.  A run exercises failures and quota telemetry on
\* single empty pages, or page contents on a server that never fails, or follow-up
\* pages on a server that may fail and may leave the user out of a response.
ServerProfiles ==
    { [name |-> "faulty", ops |-> MaxOps, errors |-> Errors,
       rate |-> RateLimitPayloads \cup {Absent}, user |-> BOOLEAN, createdAt |-> {},
       more |-> {FALSE}],
      [name |-> "gaps", ops |-> 1, errors |-> {e \in Errors : e.id \in {"rateLimit", "notFound"}},
       rate |-> {Absent}, user |-> BOOLEAN, createdAt |-> {}, more |-> BOOLEAN],
      [name |-> "paging", ops |-> 1, errors |-> {},
       rate |-> {Absent}, user |-> {TRUE}, createdAt |-> CreatedAtStrings, more |-> BOOLEAN] }

GateNone == [waited |-> FALSE, ms |-> 0]
NoResult == [op |-> "none", kind |-> "none"]
NoCall == [ok |-> FALSE, query |-> "none"]

\* the pageInfo of the page that follows the cursor: cursors are numbered in the order
\* of the server's pages, 0 standing for the null cursor of the first request
PageInfos(cursor) == [hasNextPage : srv.more, endCursor : {cursor + 1}]

\* the node lists a page of the n-th request of a collection may carry: one node, or
\* two with the later record first, on a server that has records, none on one that has
\* not; pos is the place of the node in its page
NodeLists(n) ==
    IF srv.createdAt = {} THEN {<<>>}
    ELSE {<<[page |-> n, pos |-> 1, createdAt |-> c]>> : c \in srv.createdAt}
         \cup {<<[page |-> n, pos |-> 1, createdAt |-> "1970-01-01T00:01:00Z"],
                 [page |-> n, pos |-> 2, createdAt |-> "1970-01-01T00:00:10Z"]>>}

EmptyConnection == [nodes |-> <<>>, pageInfo |-> [hasNextPage |-> FALSE, endCursor |-> 0]]

Connections(n, cursor) == [nodes : NodeLists(n), pageInfo : PageInfos(cursor)]

---------------------------------------------------------------------------
(* GitHubClient: src/src/api/queries.ts *)

maxPages == 5

FetchInit ==
    [result |-> [issueComments |-> EmptyConnection], allPRs |-> <<>>, prPageInfo |-> EmptyConnection.pageInfo,
     pagesLoaded |-> 0, filteredPRs |-> <<>>, allComments |-> <<>>,
     commentPageInfo |-> EmptyConnection.pageInfo, prRequests |-> 0, commentRequests |-> 0,
     prCursor |-> 0, commentCursor |-> 0]

\* responses to CONTRIBUTOR_DATA_QUERY; only the parts the caller reads in this phase vary
ContributorResponses ==
    LET rl == {r \in srv.rate : r = Absent \/ r \in ContributorQueryPayloads}
    IN  CASE phase = "first" ->
               [user : srv.user, pullRequests : Connections(1, 0),
                issueComments : Connections(1, 0), rateLimit : rl]
          [] phase = "prPage" ->
               [user : srv.user, pullRequests : Connections(fetch.prRequests, fetch.prCursor),
                issueComments : {EmptyConnection}, rateLimit : rl]
          [] OTHER ->
               [user : srv.user, pullRequests : {EmptyConnection},
                issueComments : Connections(fetch.commentRequests, fetch.commentCursor),
                rateLimit : rl]

\* responses to ORG_MEMBERSHIP_QUERY, which does not ask for rateLimit
Username == "alice"
LoginLower(login) == IF login = "Alice" THEN "alice" ELSE login
OrgResponses ==
    [organization : BOOLEAN, members : {<<>>, <<"Alice">>, <<"alice-bot">>}, rateLimit : {Absent}]

\* responses to RATE_LIMIT_QUERY
RateResponses == [rateLimit : {r \in srv.rate : r = Absent \/ r \in RateLimitQueryPayloads}]

RECURSIVE SelectSeqFrom(_, _)
SelectSeqFrom(s, since) ==
    IF s = <<>> THEN <<>>
    ELSE LET prDate == DateParse(Head(s).createdAt)
         IN  (IF prDate >= since THEN <<Head(s)>> ELSE <<>>) \o SelectSeqFrom(Tail(s), since)

FilterKeepsAll(allPRs, sinceDate) == allPRs
FilterPRs(allPRs, sinceDate) == SelectSeqFrom(allPRs, sinceDate)

\* lines 279-282: after the PR loop, filter the PRs and start on the comments
AfterPRLoop(f) ==
    [f EXCEPT !.filteredPRs = FilterPRs(f.allPRs, SinceDate),
              !.allComments = f.result.issueComments.nodes,
              !.commentPageInfo = f.result.issueComments.pageInfo,
              !.pagesLoaded = 1]

PRLoopContinuesAlways(f) == f.prPageInfo.hasNextPage
PRLoopContinues(f) == f.prPageInfo.hasNextPage /\ f.pagesLoaded < maxPages
CommentLoopContinues(f) == f.commentPageInfo.hasNextPage /\ f.pagesLoaded < maxPages

\* the snapshot fetchContributorData returns (lines 305-323)
Snapshot(f) ==
    [pullRequests  |-> [nodes |-> f.filteredPRs, totalCount |-> Len(f.filteredPRs)],
     issueComments |-> [nodes |-> f.allComments, totalCount |-> Len(f.allComments)]]

\* fetchContributorData from the return of one executeGraphQL to the next call or the end:
\* to is "prPage" or "commentPage" (another page is requested), "return" or "throw"
FetchResumePrepends(f, resp) ==
    LET afterPRs(g) == LET h == AfterPRLoop(g)
                       IN  IF CommentLoopContinues(h) THEN [f |-> h, to |-> "commentPage"]
                           ELSE [f |-> h, to |-> "return"]
        prLoop(g) == IF PRLoopContinues(g) THEN [f |-> g, to |-> "prPage"] ELSE afterPRs(g)
        commentLoop(g) == IF CommentLoopContinues(g) THEN [f |-> g, to |-> "commentPage"]
                          ELSE [f |-> g, to |-> "return"]
    IN  CASE phase = "first" ->
               IF ~resp.user THEN [f |-> f, to |-> "throw"]
               ELSE prLoop([f EXCEPT !.result = [issueComments |-> resp.issueComments],
                                     !.allPRs = resp.pullRequests.nodes,
                                     !.prPageInfo = resp.pullRequests.pageInfo,
                                     !.pagesLoaded = 1])
          [] phase = "prPage" ->
               LET g == IF resp.user
                        THEN [f EXCEPT !.allPRs = resp.pullRequests.nodes \o @,
                                       !.prPageInfo = resp.pullRequests.pageInfo]
                        ELSE f
               IN  prLoop([g EXCEPT !.pagesLoaded = @ + 1])
          [] OTHER ->
               LET g == IF resp.user
                        THEN [f EXCEPT !.allComments = resp.issueComments.nodes \o @,
                                       !.commentPageInfo = resp.issueComments.pageInfo]
                        ELSE f
               IN  commentLoop([g EXCEPT !.pagesLoaded = @ + 1])
FetchResume(f, resp) ==
    LET afterPRs(g) == LET h == AfterPRLoop(g)
                       IN  IF CommentLoopContinues(h) THEN [f |-> h, to |-> "commentPage"]
                           ELSE [f |-> h, to |-> "return"]
        prLoop(g) == IF PRLoopContinues(g) THEN [f |-> g, to |-> "prPage"] ELSE afterPRs(g)
        commentLoop(g) == IF CommentLoopContinues(g) THEN [f |-> g, to |-> "commentPage"]
                          ELSE [f |-> g, to |-> "return"]
    IN  CASE phase = "first" ->
               IF ~resp.user THEN [f |-> f, to |-> "throw"]
               ELSE prLoop([f EXCEPT !.result = [issueComments |-> resp.issueComments],
                                     !.allPRs = resp.pullRequests.nodes,
                                     !.prPageInfo = resp.pullRequests.pageInfo,
                                     !.pagesLoaded = 1])
          [] phase = "prPage" ->
               LET g == IF resp.user
                        THEN [f EXCEPT !.allPRs = @ \o resp.pullRequests.nodes,
                                       !.prPageInfo = resp.pullRequests.pageInfo]
                        ELSE f
               IN  prLoop([g EXCEPT !.pagesLoaded = @ + 1])
          [] OTHER ->
               LET g == IF resp.user
                        THEN [f EXCEPT !.allComments = @ \o resp.issueComments.nodes,
                                       !.commentPageInfo = resp.issueComments.pageInfo]
                        ELSE f
               IN  commentLoop([g EXCEPT !.pagesLoaded = @ + 1])

\* entry of a logical call: the locals of the retry loop and the bookkeeping of the call
EnterCall(max) ==
    /\ attempt' = 0
    /\ maxRetries' = max
    /\ lastError' = Undefined
    /\ fnCalls' = 0
    /\ backoffs' = <<>>

FinishOp(o, kind, value) ==
    /\ pc' = "idle"
    /\ op' = "none"
    /\ phase' = "-"
    /\ result' = [op |-> o, kind |-> kind, value |-> value]

Finish(kind, value) == FinishOp(op, kind, value)

StartFetch ==
    /\ pc = "idle" /\ opsLeft > 0
    /\ opsLeft' = opsLeft - 1
    /\ op' = "fetch" /\ phase' = "first" /\ pc' = "gate"
    /\ fetch' = FetchInit
    /\ result' = NoResult
    /\ UNCHANGED <<srv, rateLimitStatus, now, attempt, maxRetries, lastError, fnCalls, backoffs,
                   gateWait, prev, lastCall, orgsLeft>>

\* checkOrgMembership(username, orgs), lines 329-334; the counters of physical calls and
\* backoff sleeps are those of the operation that starts here
StartOrg ==
    /\ pc = "idle" /\ opsLeft > 0
    /\ opsLeft' = opsLeft - 1
    /\ fetch' = FetchInit
    /\ \E n \in 0..MaxOrgs :
         /\ orgsLeft' = n
         /\ IF n = 0
            THEN FinishOp("org", "returned", FALSE)
            ELSE op' = "org" /\ phase' = "-" /\ pc' = "gate" /\ result' = NoResult
    /\ fnCalls' = 0 /\ backoffs' = <<>>
    /\ UNCHANGED <<srv, rateLimitStatus, now, attempt, maxRetries, lastError, gateWait, prev, lastCall>>

\* getRateLimitStatus(), lines 366-375
StartRate ==
    /\ pc = "idle" /\ opsLeft > 0
    /\ opsLeft' = opsLeft - 1
    /\ op' = "rate" /\ phase' = "-" /\ pc' = "gate"
    /\ fetch' = FetchInit
    /\ result' = NoResult
    /\ UNCHANGED <<srv, rateLimitStatus, now, attempt, maxRetries, lastError, fnCalls, backoffs,
                   gateWait, prev, lastCall, orgsLeft>>

\* executeGraphQL, lines 172-180: the pre-call gate, then the retry loop is entered
GateKeepsCursor ==
    /\ pc = "gate"
    /\ IF rateLimitStatus # Null /\ shouldWait(rateLimitStatus)
       THEN \E t \in NowValues :
               /\ t >= now
               /\ now' = t
               /\ gateWait' = [waited |-> TRUE, ms |-> calculateWaitTime(rateLimitStatus, t)]
       ELSE gateWait' = GateNone /\ UNCHANGED now
    /\ EnterCall(MAX_RETRIES)
    /\ prev' = "gate"
    /\ pc' = "call"
    /\ fetch' = [fetch EXCEPT
                   !.prRequests = @ + (IF op = "fetch" /\ phase \in {"first", "prPage"} THEN 1 ELSE 0),
                   !.commentRequests = @ + (IF op = "fetch" /\ phase \in {"first", "commentPage"} THEN 1 ELSE 0),
                   !.prCursor = @,
                   !.commentCursor = IF op = "fetch" /\ phase = "commentPage"
                                     THEN fetch.commentPageInfo.endCursor ELSE @]
    /\ UNCHANGED <<op, phase, opsLeft, srv, rateLimitStatus, lastCall, orgsLeft, result>>
Gate ==
    /\ pc = "gate"
    /\ IF rateLimitStatus # Null /\ shouldWait(rateLimitStatus)
       THEN \E t \in NowValues :
               /\ t >= now
               /\ now' = t
               /\ gateWait' = [waited |-> TRUE, ms |-> calculateWaitTime(rateLimitStatus, t)]
       ELSE gateWait' = GateNone /\ UNCHANGED now
    /\ EnterCall(MAX_RETRIES)
    /\ prev' = "gate"
    /\ pc' = "call"
    /\ fetch' = [fetch EXCEPT
                   !.prRequests = @ + (IF op = "fetch" /\ phase \in {"first", "prPage"} THEN 1 ELSE 0),
                   !.commentRequests = @ + (IF op = "fetch" /\ phase \in {"first", "commentPage"} THEN 1 ELSE 0),
                   !.prCursor = IF op = "fetch" /\ phase = "prPage"
                                THEN fetch.prPageInfo.endCursor ELSE @,
                   !.commentCursor = IF op = "fetch" /\ phase = "commentPage"
                                     THEN fetch.commentPageInfo.endCursor ELSE @]
    /\ UNCHANGED <<op, phase, opsLeft, srv, rateLimitStatus, lastCall, orgsLeft, result>>

\* where an error thrown by executeGraphQL goes: fetchContributorData lets it through,
\* checkOrgMembership catches it and goes on with the next organisation,
\* getRateLimitStatus catches it and returns null
GraphQLThrows(error) ==
    CASE op = "fetch" -> Finish("thrown", error) /\ UNCHANGED orgsLeft
      [] op = "org" ->
           /\ orgsLeft' = orgsLeft - 1
           /\ IF orgsLeft - 1 > 0
              THEN pc' = "gate" /\ UNCHANGED <<op, phase, result>>
              ELSE Finish("returned", FALSE)
      [] OTHER -> Finish("returned", Null) /\ UNCHANGED orgsLeft

\* executeGraphQL, lines 197-212: the physical call throws
GraphQLCallFails ==
    /\ pc = "call"
    /\ \E error \in srv.errors :
         LET c == Catch(error, attempt, maxRetries)
         IN  /\ fnCalls' = fnCalls + 1
             /\ lastError' = error
             /\ lastCall' = [ok |-> FALSE, query |-> op, error |-> error]
             /\ IF c.do = "backoff"
                THEN /\ backoffs' = Append(backoffs, c.wait)
                     /\ attempt' = attempt + 1
                     /\ prev' = "backoff"
                     /\ IF attempt + 1 < maxRetries
                        THEN UNCHANGED <<op, pc, phase, result, orgsLeft>>
                        ELSE GraphQLThrows(error)
                ELSE /\ GraphQLThrows(error)
                     /\ UNCHANGED <<backoffs, attempt, prev>>
    /\ UNCHANGED <<opsLeft, srv, rateLimitStatus, now, maxRetries, gateWait, fetch>>

StatusAfterOverwrites(resp) == parseRateLimit(resp.rateLimit)
StatusAfter(resp) ==
    IF resp.rateLimit # Absent THEN parseRateLimit(resp.rateLimit) ELSE rateLimitStatus

\* executeGraphQL, lines 182-196, and what the caller does with the result
GraphQLCallSucceeds ==
    /\ pc = "call"
    /\ fnCalls' = fnCalls + 1
    /\ \E resp \in (CASE op = "fetch" -> ContributorResponses
                      [] op = "org" -> OrgResponses
                      [] OTHER -> RateResponses) :
         /\ rateLimitStatus' = StatusAfter(resp)
         /\ lastCall' = IF op = "fetch"
                        THEN [ok |-> TRUE, query |-> op, rateLimit |-> resp.rateLimit,
                              user |-> resp.user]
                        ELSE [ok |-> TRUE, query |-> op, rateLimit |-> resp.rateLimit]
         /\ CASE op = "fetch" ->
                   LET r == FetchResume(fetch, resp)
                   IN  /\ fetch' = r.f
                       /\ UNCHANGED orgsLeft
                       /\ CASE r.to = "throw" -> Finish("thrown", UserNotFound)
                            [] r.to = "return" -> Finish("returned", Snapshot(r.f))
                            [] OTHER -> pc' = "gate" /\ phase' = r.to /\ UNCHANGED <<op, result>>
              [] op = "org" ->
                   /\ UNCHANGED fetch
                   /\ IF resp.organization
                         /\ \E i \in 1..Len(resp.members) :
                               LoginLower(resp.members[i]) = LoginLower(Username)
                      THEN Finish("returned", TRUE) /\ UNCHANGED orgsLeft
                      ELSE /\ orgsLeft' = orgsLeft - 1
                           /\ IF orgsLeft - 1 > 0
                              THEN pc' = "gate" /\ UNCHANGED <<op, phase, result>>
                              ELSE Finish("returned", FALSE)
              [] OTHER ->
                   /\ UNCHANGED <<fetch, orgsLeft>>
                   /\ Finish("returned", parseRateLimit(resp.rateLimit))
    /\ UNCHANGED <<opsLeft, srv, now, attempt, maxRetries, lastError, backoffs, gateWait, prev>>

---------------------------------------------------------------------------
(* executeWithRetry(fn, maxRetries): src/src/api/rate-limit.ts, lines 175-200 *)

StartRetry ==
    /\ pc = "idle" /\ opsLeft > 0
    /\ opsLeft' = opsLeft - 1
    /\ fetch' = FetchInit
    /\ gateWait' = GateNone
    /\ prev' = "start"
    /\ \E n \in 0..MaxRetriesArg :
         /\ EnterCall(n)
         /\ IF 0 < n
            THEN op' = "retry" /\ phase' = "-" /\ pc' = "fn" /\ result' = NoResult
            ELSE FinishOp("retry", "thrown", Undefined)
    /\ UNCHANGED <<srv, rateLimitStatus, now, lastCall, orgsLeft>>

FnSucceeds ==
    /\ pc = "fn"
    /\ fnCalls' = fnCalls + 1
    /\ lastCall' = [ok |-> TRUE, query |-> op, rateLimit |-> Absent]
    /\ Finish("returned", "value")
    /\ UNCHANGED <<opsLeft, srv, rateLimitStatus, now, attempt, maxRetries, lastError, backoffs,
                   gateWait, prev, fetch, orgsLeft>>

FnFailsThrowsStaleError ==
    /\ pc = "fn"
    /\ \E error \in srv.errors :
         LET c == Catch(error, attempt, maxRetries)
         IN  /\ fnCalls' = fnCalls + 1
             /\ lastError' = error
             /\ lastCall' = [ok |-> FALSE, query |-> op, error |-> error]
             /\ IF c.do = "backoff"
                THEN /\ backoffs' = Append(backoffs, c.wait)
                     /\ attempt' = attempt + 1
                     /\ prev' = "backoff"
                     /\ IF attempt + 1 < maxRetries
                        THEN UNCHANGED <<op, pc, phase, result>>
                        ELSE Finish("thrown", lastError)
                ELSE /\ Finish("thrown", lastError)
                     /\ UNCHANGED <<backoffs, attempt, prev>>
    /\ UNCHANGED <<opsLeft, srv, rateLimitStatus, now, maxRetries, gateWait, fetch, orgsLeft>>

FnFails ==
    /\ pc = "fn"
    /\ \E error \in srv.errors :
         LET c == Catch(error, attempt, maxRetries)
         IN  /\ fnCalls' = fnCalls + 1
             /\ lastError' = error
             /\ lastCall' = [ok |-> FALSE, query |-> op, error |-> error]
             /\ IF c.do = "backoff"
                THEN /\ backoffs' = Append(backoffs, c.wait)
                     /\ attempt' = attempt + 1
                     /\ prev' = "backoff"
                     /\ IF attempt + 1 < maxRetries
                        THEN UNCHANGED <<op, pc, phase, result>>
                        ELSE Finish("thrown", error)
                ELSE /\ Finish("thrown", error)
                     /\ UNCHANGED <<backoffs, attempt, prev>>
    /\ UNCHANGED <<opsLeft, srv, rateLimitStatus, now, maxRetries, gateWait, fetch, orgsLeft>>

---------------------------------------------------------------------------

\* run() has not been entered: nothing failed, nothing reported, nothing written
RunOff ==
    [pc |-> "off", failed |-> FALSE, outputs |-> "none", comments |-> 0, labels |-> 0,
     isNewAccount |-> FALSE]

EvalIdle ==
    /\ evalPc = "off"
    /\ config = <<>>
    /\ metricsData = <<>>
    /\ metrics = <<>>
    /\ analysis = <<>>

Init ==
    /\ op = "none" /\ pc = "idle" /\ phase = "-"
    /\ srv \in ServerProfiles
    /\ opsLeft = srv.ops
    /\ rateLimitStatus = Null
    /\ now = 0
    /\ attempt = 0 /\ maxRetries = 0 /\ lastError = Undefined
    /\ fnCalls = 0 /\ backoffs = <<>>
    /\ gateWait = GateNone /\ prev = "start" /\ lastCall = NoCall
    /\ fetch = FetchInit
    /\ orgsLeft = 0
    /\ result = NoResult
    /\ EvalIdle
    /\ run = RunOff

Next ==
    \/ (StartFetch /\ UNCHANGED <<evalVars, run>>)
    \/ (StartOrg /\ UNCHANGED <<evalVars, run>>)
    \/ (StartRate /\ UNCHANGED <<evalVars, run>>)
    \/ (StartRetry /\ UNCHANGED <<evalVars, run>>)
    \/ (Gate /\ UNCHANGED <<evalVars, run>>)
    \/ (GraphQLCallFails /\ UNCHANGED <<evalVars, run>>)
    \/ (GraphQLCallSucceeds /\ UNCHANGED <<evalVars, run>>)
    \/ (FnSucceeds /\ UNCHANGED <<evalVars, run>>)
    \/ (FnFails /\ UNCHANGED <<evalVars, run>>)

Spec == Init /\ [][Next]_vars

---------------------------------------------------------------------------
(* The evaluation engine.  A JavaScript number that is a quotient is kept  *)
(* as an exact fraction; thresholds of rate metrics are fractions as well. *)

Rate(n, d) == [num |-> n, den |-> d]
\* "d > 0 ? n / d : 0"
Ratio(n, d) == IF d > 0 THEN Rate(n, d) ELSE Rate(0, 1)
RateGE(a, b) == a.num * b.den >= b.num * a.den
RateGT(a, b) == a.num * b.den > b.num * a.den
Whole(n) == Rate(n, 1)

\* SPAM_DETECTION_THRESHOLDS
NewAccountDaysInclusive == 30 + 1
NEW_ACCOUNT_DAYS == 30
NEW_ACCOUNT_HIGH_PR_COUNT == 25
NEW_ACCOUNT_HIGH_REPO_COUNT == 10
HIGH_PR_RATE == Whole(2)
SelfMergeAbuseRateLower == Rate(1, 3)
SELF_MERGE_ABUSE_RATE == Rate(1, 2)
LOW_QUALITY_REPO_STARS == 10
REPO_SPAM_COUNT == 10
REPO_SPAM_AVG_STARS == 10

\* DEFAULT_CONFIG.minimumStars
minimumStars == 100

VALID_METRIC_NAMES ==
    <<"prMergeRate", "repoQuality", "positiveReactions", "negativeReactions", "accountAge",
      "activityConsistency", "issueEngagement", "codeReviews", "mergerDiversity",
      "repoHistoryMergeRate", "repoHistoryMinPRs", "profileCompleteness", "suspiciousPatterns">>

DEFAULT_THRESHOLDS ==
    [prMergeRate |-> Whole(0), repoQuality |-> 0, positiveReactions |-> 0,
     negativeReactions |-> 0, accountAge |-> 0, activityConsistency |-> Whole(0),
     issueEngagement |-> 0, codeReviews |-> 0, mergerDiversity |-> 0,
     repoHistoryMergeRate |-> Whole(0), repoHistoryMinPRs |-> 0, profileCompleteness |-> 0]

\* a custom "thresholds" input that passes validateThresholds
StrictThresholds ==
    [prMergeRate |-> Rate(3, 10), repoQuality |-> 1, positiveReactions |-> 1,
     negativeReactions |-> 5, accountAge |-> 30, activityConsistency |-> Rate(1, 2),
     issueEngagement |-> 1, codeReviews |-> 1, mergerDiversity |-> 2,
     repoHistoryMergeRate |-> Rate(1, 2), repoHistoryMinPRs |-> 1, profileCompleteness |-> 50]

\* a custom input that raises three thresholds only
LenientThresholds ==
    [DEFAULT_THRESHOLDS EXCEPT !.activityConsistency = Rate(1, 2), !.negativeReactions = 10,
                               !.mergerDiversity = 1]

DEFAULT_REQUIRED_METRICS == <<"prMergeRate", "accountAge">>

\* "required-metrics" inputs that pass validateRequiredMetrics
RequiredMetricsInputs ==
    { <<>>,
      DEFAULT_REQUIRED_METRICS,
      <<"positiveReactions">>,
      <<"suspiciousPatterns">>,
      <<"mergerDiversity", "suspiciousPatterns">> }

Configs ==
    [thresholds : {DEFAULT_THRESHOLDS, StrictThresholds, LenientThresholds},
     requiredMetrics : RequiredMetricsInputs,
     minimumStars : {minimumStars},
     enableSpamDetection : BOOLEAN]

Range(s) == {s[i] : i \in DOMAIN s}

RECURSIVE SumOf(_, _)
\* reduce((sum, x) => sum + x[field], 0)
SumOf(s, field) == IF s = <<>> THEN 0 ELSE Head(s)[field] + SumOf(Tail(s), field)

---------------------------------------------------------------------------
(* What the extractors hand to the engine.  A contributor is described by  *)
(* the pull requests of the window: repositories contributed to, each with *)
(* the same stars and merged pull requests, further pull requests closed   *)
(* unmerged or still open, and who merged.                                 *)

AgeValues == {0, 10, 30, 400}

RepoShapes ==
    { [n |-> 0,  merged |-> 0,  closed |-> 0,  open |-> 0],
      [n |-> 12, merged |-> 1,  closed |-> 18, open |-> 0],
      [n |-> 12, merged |-> 1,  closed |-> 13, open |-> 0],
      [n |-> 10, merged |-> 2,  closed |-> 5,  open |-> 0],
      [n |-> 10, merged |-> 2,  closed |-> 5,  open |-> 5],
      [n |-> 1,  merged |-> 45, closed |-> 0,  open |-> 5] }

\* stars of the repositories contributed to, taken in turn
StarValues == {<<2>>, <<10>>, <<200>>, <<2, 200>>}

Contributors ==
    [ageInDays : AgeValues, shape : RepoShapes, stars : StarValues,
     selfMerged : {"none", "half", "most", "all"}, ownRepos : BOOLEAN, engaged : BOOLEAN,
     inRepo : {"first", "open", "mixed"}]

PRHistoryOf(c) ==
    LET mergedPRs == c.shape.n * c.shape.merged
    IN  [totalPRs |-> mergedPRs + c.shape.closed + c.shape.open,
         mergedPRs |-> mergedPRs,
         closedWithoutMerge |-> c.shape.closed,
         openPRs |-> c.shape.open,
         mergeRate |-> Ratio(mergedPRs, mergedPRs + c.shape.closed)]

RepoQualityOf(c, minStars) ==
    LET repos == [i \in 1..c.shape.n |->
                        [stars |-> c.stars[((i - 1) % Len(c.stars)) + 1],
                         mergedPRCount |-> c.shape.merged]]
        IsQuality(r) == r.stars >= minStars
        starsOf == {repos[i].stars : i \in DOMAIN repos}
    IN  [contributedRepos |-> repos,
         qualityRepoCount |-> Len(SelectSeq(repos, IsQuality)),
         averageRepoStars |-> Ratio(SumOf(repos, "stars"), Len(repos)),
         highestStarRepo |-> IF repos = <<>> THEN 0
                             ELSE CHOOSE x \in starsOf : \A y \in starsOf : y <= x]

AccountOf(c) ==
    LET months == IF c.ageInDays >= 90 THEN 9 ELSE 1
    IN  [ageInDays |-> c.ageInDays,
         monthsWithActivity |-> months,
         totalMonthsInWindow |-> 12,
         consistencyScore |-> Ratio(months, 12)]

MergerDiversityOf(c) ==
    LET totalMergedPRs == c.shape.n * c.shape.merged
        selfMergeCount == CASE c.selfMerged = "none" -> 0
                            [] c.selfMerged = "half" -> totalMergedPRs \div 2
                            [] c.selfMerged = "most" -> (9 * totalMergedPRs) \div 10
                            [] OTHER -> totalMergedPRs
        othersMergeCount == totalMergedPRs - selfMergeCount
        selfMergesOnOwnRepos == IF c.ownRepos THEN selfMergeCount ELSE 0
    IN  [totalMergedPRs |-> totalMergedPRs,
         uniqueMergers |-> (IF selfMergeCount > 0 THEN 1 ELSE 0)
                             + (IF othersMergeCount > 0 THEN 1 ELSE 0),
         selfMergeCount |-> selfMergeCount,
         othersMergeCount |-> othersMergeCount,
         selfMergesOnOwnRepos |-> selfMergesOnOwnRepos,
         selfMergesOnExternalRepos |-> selfMergeCount - selfMergesOnOwnRepos,
         onlySelfMergesOnOwnRepos |-> /\ totalMergedPRs > 0
                                      /\ selfMergesOnOwnRepos = totalMergedPRs
                                      /\ othersMergeCount = 0,
         selfMergeRate |-> Ratio(selfMergeCount, totalMergedPRs)]

\* extractReactionData(data), src/src/metrics/reactions.ts lines 13-65; a reaction is
\* its content, and the reactions of an issue are Absent where the response has none
ExtractReactionDataZeroWhenEmpty(data) ==
    LET comments == data.issueComments.nodes
        IsIssue(issue) == issue.typename = "Issue" /\ issue.reactions # Absent
        issues == SelectSeq(data.issueSearch.nodes, IsIssue)
        RECURSIVE CountOf(_, _)
        CountOf(reactions, kind) ==
            IF reactions = <<>> THEN 0
            ELSE LET content == Head(reactions)
                     is == IF content \in {"THUMBS_UP", "HEART", "ROCKET", "HOORAY"} THEN "positive"
                           ELSE IF content \in {"THUMBS_DOWN", "CONFUSED"} THEN "negative"
                           ELSE "neutral"
                 IN  (IF is = kind THEN 1 ELSE 0) + CountOf(Tail(reactions), kind)
        RECURSIVE Over(_, _)
        Over(items, kind) ==
            IF items = <<>> THEN 0
            ELSE CountOf(Head(items).reactions.nodes, kind) + Over(Tail(items), kind)
        positiveCount == Over(comments, "positive") + Over(issues, "positive")
        negativeCount == Over(comments, "negative") + Over(issues, "negative")
        neutralCount == Over(comments, "neutral") + Over(issues, "neutral")
        totalReactions == positiveCount + negativeCount + neutralCount
    IN  [totalComments |-> Len(comments) + Len(issues),
         positiveReactions |-> positiveCount,
         negativeReactions |-> negativeCount,
         neutralReactions |-> neutralCount,
         positiveRatio |-> IF totalReactions > 0 THEN Rate(positiveCount, totalReactions)
                           ELSE Rate(0, 1)]
extractReactionData(data) ==
    LET comments == data.issueComments.nodes
        IsIssue(issue) == issue.typename = "Issue" /\ issue.reactions # Absent
        issues == SelectSeq(data.issueSearch.nodes, IsIssue)
        RECURSIVE CountOf(_, _)
        CountOf(reactions, kind) ==
            IF reactions = <<>> THEN 0
            ELSE LET content == Head(reactions)
                     is == IF content \in {"THUMBS_UP", "HEART", "ROCKET", "HOORAY"} THEN "positive"
                           ELSE IF content \in {"THUMBS_DOWN", "CONFUSED"} THEN "negative"
                           ELSE "neutral"
                 IN  (IF is = kind THEN 1 ELSE 0) + CountOf(Tail(reactions), kind)
        RECURSIVE Over(_, _)
        Over(items, kind) ==
            IF items = <<>> THEN 0
            ELSE CountOf(Head(items).reactions.nodes, kind) + Over(Tail(items), kind)
        positiveCount == Over(comments, "positive") + Over(issues, "positive")
        negativeCount == Over(comments, "negative") + Over(issues, "negative")
        neutralCount == Over(comments, "neutral") + Over(issues, "neutral")
        totalReactions == positiveCount + negativeCount + neutralCount
    IN  [totalComments |-> Len(comments) + Len(issues),
         positiveReactions |-> positiveCount,
         negativeReactions |-> negativeCount,
         neutralReactions |-> neutralCount,
         positiveRatio |-> IF totalReactions > 0 THEN Rate(positiveCount, totalReactions)
                           ELSE Rate(1, 2)]

\* an engaged contributor wrote four comments that drew three positive and six negative
\* reactions
ReactionsOf(c) ==
    LET drawn == [reactions |-> [nodes |-> <<"THUMBS_UP", "THUMBS_DOWN", "CONFUSED">>]]
        plain == [reactions |-> [nodes |-> <<>>]]
    IN  extractReactionData(
            [issueComments |-> [nodes |-> IF c.engaged THEN <<drawn, drawn, drawn, plain>>
                                          ELSE <<>>],
             issueSearch |-> [nodes |-> <<>>]])

IssueEngagementOf(c) == [issuesCreated |-> IF c.engaged THEN 3 ELSE 0]

CodeReviewsOf(c) == [reviewsGiven |-> IF c.engaged THEN 4 ELSE 0]

\* extractRepoHistoryData(data, prContext, sinceDate), src/src/metrics/repo-history.ts
\* lines 18-58, for the pull request context acme/app and the window starting at SinceDate
ExtractRepoHistoryDataCountsOpen(data) ==
    LET Lower(x) == CASE x = "Acme" -> "acme" [] x = "App" -> "app" [] OTHER -> x
        targetRepo == <<Lower("acme"), Lower("app")>>
        InRepo(pr) ==
            IF pr.repository = Null THEN FALSE
            ELSE IF <<Lower(pr.repository.owner.login), Lower(pr.repository.name)>> # targetRepo
            THEN FALSE
            ELSE DateParse(pr.createdAt) >= SinceDate
        repoPRs == SelectSeq(data.pullRequests.nodes, InRepo)
        IsMerged(pr) == pr.merged
        IsClosed(pr) == pr.state = "CLOSED" /\ ~pr.merged
        mergedPRs == SelectSeq(repoPRs, IsMerged)
        closedWithoutMerge == SelectSeq(repoPRs, IsClosed)
        resolvedPRs == Len(repoPRs)
    IN  [totalPRsInRepo |-> Len(repoPRs),
         mergedPRsInRepo |-> Len(mergedPRs),
         closedWithoutMergeInRepo |-> Len(closedWithoutMerge),
         repoMergeRate |-> Ratio(Len(mergedPRs), resolvedPRs),
         isFirstTimeContributor |-> Len(mergedPRs) = 0]
extractRepoHistoryData(data) ==
    LET Lower(x) == CASE x = "Acme" -> "acme" [] x = "App" -> "app" [] OTHER -> x
        targetRepo == <<Lower("acme"), Lower("app")>>
        InRepo(pr) ==
            IF pr.repository = Null THEN FALSE
            ELSE IF <<Lower(pr.repository.owner.login), Lower(pr.repository.name)>> # targetRepo
            THEN FALSE
            ELSE DateParse(pr.createdAt) >= SinceDate
        repoPRs == SelectSeq(data.pullRequests.nodes, InRepo)
        IsMerged(pr) == pr.merged
        IsClosed(pr) == pr.state = "CLOSED" /\ ~pr.merged
        mergedPRs == SelectSeq(repoPRs, IsMerged)
        closedWithoutMerge == SelectSeq(repoPRs, IsClosed)
        resolvedPRs == Len(mergedPRs) + Len(closedWithoutMerge)
    IN  [totalPRsInRepo |-> Len(repoPRs),
         mergedPRsInRepo |-> Len(mergedPRs),
         closedWithoutMergeInRepo |-> Len(closedWithoutMerge),
         repoMergeRate |-> Ratio(Len(mergedPRs), resolvedPRs),
         isFirstTimeContributor |-> Len(mergedPRs) = 0]

\* the contributor's pull requests in the target repository: none, three open, or one
\* merged and three closed without merge
RepoHistoryOf(c) ==
    LET pr(merged, state) ==
            [repository |-> [owner |-> [login |-> "acme"], name |-> "app"],
             createdAt |-> "1970-01-01T00:01:00Z", merged |-> merged, state |-> state]
        open == pr(FALSE, "OPEN")
        closed == pr(FALSE, "CLOSED")
    IN  extractRepoHistoryData(
            [pullRequests |->
                [nodes |-> CASE c.inRepo = "first" -> <<>>
                             [] c.inRepo = "open" -> <<open, open, open>>
                             [] OTHER -> <<pr(TRUE, "MERGED"), closed, closed, closed>>]])

\* SCORING of the profile completeness score
FOLLOWERS_BASE == 20
FOLLOWERS_MID == 10
FOLLOWERS_HIGH == 10
REPOS_BASE == 15
REPOS_HIGH == 5
BIO == 20
COMPANY == 20

extractProfileData(followersCount, publicReposCount, hasBio, hasCompany) ==
    [followersCount |-> followersCount,
     publicReposCount |-> publicReposCount,
     hasBio |-> hasBio,
     hasCompany |-> hasCompany,
     completenessScore |->
         (IF followersCount > 0
          THEN FOLLOWERS_BASE
                 + (IF followersCount >= 10
                    THEN FOLLOWERS_MID + (IF followersCount >= 50 THEN FOLLOWERS_HIGH ELSE 0)
                    ELSE 0)
          ELSE 0)
         + (IF publicReposCount > 0
            THEN REPOS_BASE + (IF publicReposCount >= 5 THEN REPOS_HIGH ELSE 0)
            ELSE 0)
         + (IF hasBio THEN BIO ELSE 0)
         + (IF hasCompany THEN COMPANY ELSE 0)]

ProfileOf(c) ==
    IF c.engaged
    THEN extractProfileData(12, 6, TRUE, FALSE)
    ELSE extractProfileData(0, 0, FALSE, FALSE)

---------------------------------------------------------------------------
(* Suspicious pattern detector *)

Pattern(type, severity) == [type |-> type, severity |-> severity]
PushIfTwice(cond, pattern) == IF cond THEN <<pattern, pattern>> ELSE <<>>
PushIf(cond, pattern) == IF cond THEN <<pattern>> ELSE <<>>

extractSuspiciousPatterns(m) ==
    LET accountAgeInDays == m.account.ageInDays
        totalPRs == m.prHistory.totalPRs
        uniqueRepoCount == Len(m.repoQuality.contributedRepos)
        selfMergeRate == m.mergerDiversity.selfMergeRate
        prRate == IF accountAgeInDays > 0 THEN Rate(totalPRs, accountAgeInDays)
                                          ELSE Whole(totalPRs)
        IsLowQuality(repo) == repo.stars < LOW_QUALITY_REPO_STARS
        lowQualityRepos == SelectSeq(m.repoQuality.contributedRepos, IsLowQuality)
        lowQualityPRs == SumOf(lowQualityRepos, "mergedPRCount")
        totalMergedPRs == m.mergerDiversity.totalMergedPRs
    IN  [detectedPatterns |->
             PushIf(/\ accountAgeInDays < NEW_ACCOUNT_DAYS
                    /\ totalPRs > NEW_ACCOUNT_HIGH_PR_COUNT
                    /\ uniqueRepoCount > NEW_ACCOUNT_HIGH_REPO_COUNT,
                    Pattern("SPAM_PATTERN", "CRITICAL"))
             \o PushIf(RateGT(prRate, HIGH_PR_RATE), Pattern("HIGH_PR_RATE", "WARNING"))
             \o PushIf(/\ totalMergedPRs > 0
                       /\ RateGT(selfMergeRate, SELF_MERGE_ABUSE_RATE)
                       /\ RateGT(Rate(lowQualityPRs, totalMergedPRs), SELF_MERGE_ABUSE_RATE),
                       Pattern("SELF_MERGE_ABUSE", "CRITICAL"))
             \o PushIf(/\ uniqueRepoCount > REPO_SPAM_COUNT
                       /\ RateGT(Whole(REPO_SPAM_AVG_STARS), m.repoQuality.averageRepoStars),
                       Pattern("REPO_SPAM", "WARNING")),
         prRate |-> prRate,
         uniqueRepoCount |-> uniqueRepoCount,
         selfMergeRate |-> selfMergeRate,
         accountAgeInDays |-> accountAgeInDays]

IsCritical(pattern) == pattern.severity = "CRITICAL"
IsWarning(pattern) == pattern.severity = "WARNING"

hasCriticalSpamPatterns(data) == \E i \in DOMAIN data.detectedPatterns : IsCritical(data.detectedPatterns[i])

Check(name, rawValue, threshold, passed) ==
    [name |-> name, rawValue |-> rawValue, threshold |-> threshold, passed |-> passed]

CheckSuspiciousPatternsFailsOnAny(data) ==
    IF Len(data.detectedPatterns) = 0
    THEN Check("suspiciousPatterns", 0, 0, TRUE)
    ELSE Check("suspiciousPatterns", Len(data.detectedPatterns), 0, FALSE)
checkSuspiciousPatterns(data) ==
    LET criticalPatterns == SelectSeq(data.detectedPatterns, IsCritical)
        warningPatterns == SelectSeq(data.detectedPatterns, IsWarning)
    IN  IF Len(data.detectedPatterns) = 0
        THEN Check("suspiciousPatterns", 0, 0, TRUE)
        ELSE IF Len(criticalPatterns) > 0
             THEN Check("suspiciousPatterns", Len(criticalPatterns), 0, FALSE)
             ELSE Check("suspiciousPatterns", Len(warningPatterns), 0, TRUE)

---------------------------------------------------------------------------
(* Threshold checks.  Of a MetricCheckResult the model keeps name,         *)
(* rawValue, threshold and passed.                                         *)

\* the checks of pr-history, repo-quality, account-age and code-reviews: rawValue >= threshold
checkPRMergeRate(data, threshold) ==
    Check("prMergeRate", data.mergeRate, threshold, RateGE(data.mergeRate, threshold))

checkRepoQuality(data, threshold) ==
    Check("repoQuality", data.qualityRepoCount, threshold, data.qualityRepoCount >= threshold)

checkAccountAge(data, threshold) ==
    Check("accountAge", data.ageInDays, threshold, data.ageInDays >= threshold)

checkActivityConsistency(data, threshold) ==
    Check("activityConsistency", data.consistencyScore, threshold,
          RateGE(data.consistencyScore, threshold))

checkCodeReviews(data, threshold) ==
    Check("codeReviews", data.reviewsGiven, threshold, data.reviewsGiven >= threshold)

checkPositiveReactions(data, threshold) ==
    Check("positiveReactions", data.positiveReactions, threshold,
          data.positiveReactions >= threshold)

checkNegativeReactions(data, threshold) ==
    Check("negativeReactions", data.negativeReactions, threshold,
          data.negativeReactions <= threshold)

checkIssueEngagement(data, threshold) ==
    Check("issueEngagement", data.issuesCreated, threshold, data.issuesCreated >= threshold)

CheckMergerDiversityNoDataPasses(data, threshold) ==
    IF data.totalMergedPRs = 0
    THEN Check("mergerDiversity", 0, threshold, TRUE)
    ELSE IF data.onlySelfMergesOnOwnRepos /\ threshold > 0
         THEN Check("mergerDiversity", 0, threshold, FALSE)
         ELSE Check("mergerDiversity", data.uniqueMergers, threshold,
                    data.uniqueMergers >= threshold)
CheckMergerDiversityIgnoresRedFlag(data, threshold) ==
    IF data.totalMergedPRs = 0
    THEN Check("mergerDiversity", 0, threshold, threshold = 0)
    ELSE Check("mergerDiversity", data.uniqueMergers, threshold, data.uniqueMergers >= threshold)
checkMergerDiversity(data, threshold) ==
    IF data.totalMergedPRs = 0
    THEN Check("mergerDiversity", 0, threshold, threshold = 0)
    ELSE IF data.onlySelfMergesOnOwnRepos /\ threshold > 0
         THEN Check("mergerDiversity", 0, threshold, FALSE)
         ELSE Check("mergerDiversity", data.uniqueMergers, threshold,
                    data.uniqueMergers >= threshold)

checkRepoHistoryMergeRate(data, threshold) ==
    IF data.totalPRsInRepo = 0
    THEN Check("repoHistoryMergeRate", Whole(0), threshold, threshold.num = 0)
    ELSE IF data.mergedPRsInRepo + data.closedWithoutMergeInRepo = 0
         THEN Check("repoHistoryMergeRate", Whole(0), threshold, threshold.num = 0)
         ELSE Check("repoHistoryMergeRate", data.repoMergeRate, threshold,
                    RateGE(data.repoMergeRate, threshold))

checkRepoHistoryMinPRs(data, threshold) ==
    Check("repoHistoryMinPRs", data.totalPRsInRepo, threshold, data.totalPRsInRepo >= threshold)

checkProfileCompleteness(data, threshold) ==
    Check("profileCompleteness", data.completenessScore, threshold,
          data.completenessScore >= threshold)

---------------------------------------------------------------------------
(* Scoring engine *)

ExtractAllMetricsAlwaysDetects(c, cfg) ==
    LET prHistory == PRHistoryOf(c)
        repoQuality == RepoQualityOf(c, cfg.minimumStars)
        account == AccountOf(c)
        mergerDiversity == MergerDiversityOf(c)
    IN  [prHistory |-> prHistory,
         repoQuality |-> repoQuality,
         reactions |-> ReactionsOf(c),
         account |-> account,
         issueEngagement |-> IssueEngagementOf(c),
         codeReviews |-> CodeReviewsOf(c),
         mergerDiversity |-> mergerDiversity,
         repoHistory |-> RepoHistoryOf(c),
         profile |-> ProfileOf(c),
         suspiciousPatterns |->
             extractSuspiciousPatterns([prHistory |-> prHistory,
                                        repoQuality |-> repoQuality,
                                        account |-> account,
                                        mergerDiversity |-> mergerDiversity])]
extractAllMetrics(c, cfg) ==
    LET prHistory == PRHistoryOf(c)
        repoQuality == RepoQualityOf(c, cfg.minimumStars)
        account == AccountOf(c)
        mergerDiversity == MergerDiversityOf(c)
    IN  [prHistory |-> prHistory,
         repoQuality |-> repoQuality,
         reactions |-> ReactionsOf(c),
         account |-> account,
         issueEngagement |-> IssueEngagementOf(c),
         codeReviews |-> CodeReviewsOf(c),
         mergerDiversity |-> mergerDiversity,
         repoHistory |-> RepoHistoryOf(c),
         profile |-> ProfileOf(c),
         suspiciousPatterns |->
             IF cfg.enableSpamDetection
             THEN extractSuspiciousPatterns([prHistory |-> prHistory,
                                             repoQuality |-> repoQuality,
                                             account |-> account,
                                             mergerDiversity |-> mergerDiversity])
             ELSE Absent]

checkAllMetrics(md, cfg) ==
    LET thresholds == cfg.thresholds
        baseChecks ==
            << checkPRMergeRate(md.prHistory, thresholds.prMergeRate),
               checkRepoQuality(md.repoQuality, thresholds.repoQuality),
               checkPositiveReactions(md.reactions, thresholds.positiveReactions),
               checkNegativeReactions(md.reactions, thresholds.negativeReactions),
               checkAccountAge(md.account, thresholds.accountAge),
               checkActivityConsistency(md.account, thresholds.activityConsistency),
               checkIssueEngagement(md.issueEngagement, thresholds.issueEngagement),
               checkCodeReviews(md.codeReviews, thresholds.codeReviews),
               checkMergerDiversity(md.mergerDiversity, thresholds.mergerDiversity),
               checkRepoHistoryMergeRate(md.repoHistory, thresholds.repoHistoryMergeRate),
               checkRepoHistoryMinPRs(md.repoHistory, thresholds.repoHistoryMinPRs),
               checkProfileCompleteness(md.profile, thresholds.profileCompleteness) >>
    IN  IF md.suspiciousPatterns # Absent
        THEN Append(baseChecks, checkSuspiciousPatterns(md.suspiciousPatterns))
        ELSE baseChecks

\* metrics.find((m) => m.name === requiredName): index of the first match, 0 for undefined
Find(ms, requiredName) ==
    IF \E i \in DOMAIN ms : ms[i].name = requiredName
    THEN CHOOSE i \in DOMAIN ms :
            /\ ms[i].name = requiredName
            /\ \A j \in DOMAIN ms : ms[j].name = requiredName => i <= j
    ELSE 0

DeterminePassStatusFailClosed(ms, requiredMetrics) ==
    IF Len(requiredMetrics) = 0
    THEN \A i \in DOMAIN ms : ms[i].passed
    ELSE \A r \in DOMAIN requiredMetrics :
            LET metric == Find(ms, requiredMetrics[r])
            IN  IF metric # 0 THEN ms[metric].passed ELSE FALSE
determinePassStatus(ms, requiredMetrics) ==
    IF Len(requiredMetrics) = 0
    THEN \A i \in DOMAIN ms : ms[i].passed
    ELSE \A r \in DOMAIN requiredMetrics :
            LET metric == Find(ms, requiredMetrics[r])
            IN  IF metric # 0 THEN ms[metric].passed ELSE TRUE

\* the recommendation of one failed metric: the text is kept as a tag
Recommendation(md, name) ==
    CASE name = "prMergeRate" -> <<"prMergeRate">>
      [] name = "repoQuality" -> <<"repoQuality">>
      [] name = "codeReviews" -> <<"codeReviews">>
      [] name = "negativeReactions" -> <<"negativeReactions">>
      [] name = "accountAge" -> <<"accountAge">>
      [] name = "activityConsistency" ->
            IF md.account.ageInDays >= 90 THEN <<"activityConsistency">> ELSE <<>>
      [] name = "positiveReactions" -> <<"positiveReactions">>
      [] name = "issueEngagement" -> <<"issueEngagement">>
      [] name = "mergerDiversity" ->
            IF md.mergerDiversity.onlySelfMergesOnOwnRepos
            THEN <<"mergerDiversity: external projects">>
            ELSE <<"mergerDiversity: diverse projects">>
      [] name = "repoHistoryMergeRate" ->
            IF md.repoHistory.isFirstTimeContributor
            THEN <<"repoHistoryMergeRate: welcome">>
            ELSE <<"repoHistoryMergeRate: review rejected PRs">>
      [] name = "repoHistoryMinPRs" -> <<"repoHistoryMinPRs">>
      [] name = "profileCompleteness" ->
            IF ~md.profile.hasBio \/ ~md.profile.hasCompany \/ md.profile.followersCount = 0
            THEN <<"profileCompleteness">>
            ELSE <<>>
      [] OTHER -> <<>>

RECURSIVE RecommendationsOf(_, _)
RecommendationsOf(md, failed) ==
    IF failed = <<>> THEN <<>>
    ELSE Recommendation(md, Head(failed).name) \o RecommendationsOf(md, Tail(failed))

Failed(m) == ~m.passed

GenerateRecommendationsNoShortCircuit(md, ms) ==
    LET failedMetrics == SelectSeq(ms, Failed)
        recommendations == RecommendationsOf(md, failedMetrics)
    IN  IF md.suspiciousPatterns # Absent /\ hasCriticalSpamPatterns(md.suspiciousPatterns)
        THEN <<"CRITICAL">> \o recommendations
        ELSE IF Len(recommendations) = 0 /\ Len(failedMetrics) > 0
             THEN <<"general">>
             ELSE recommendations
GenerateRecommendationsNoGeneral(md, ms) ==
    LET failedMetrics == SelectSeq(ms, Failed)
        recommendations == RecommendationsOf(md, failedMetrics)
    IN  IF md.suspiciousPatterns # Absent /\ hasCriticalSpamPatterns(md.suspiciousPatterns)
        THEN <<"CRITICAL">>
        ELSE recommendations
generateRecommendations(md, ms) ==
    LET failedMetrics == SelectSeq(ms, Failed)
        recommendations == RecommendationsOf(md, failedMetrics)
    IN  IF md.suspiciousPatterns # Absent /\ hasCriticalSpamPatterns(md.suspiciousPatterns)
        THEN <<"CRITICAL">>
        ELSE IF Len(recommendations) = 0 /\ Len(failedMetrics) > 0
             THEN <<"general">>
             ELSE recommendations

Names(ms) == [i \in DOMAIN ms |-> ms[i].name]

\* the AnalysisResult; isNewAccount and hasLimitedData are left out
AnalysisOf(md, ms, cfg) ==
    [passed |-> determinePassStatus(ms, cfg.requiredMetrics),
     passedCount |-> Len(ms) - Len(SelectSeq(ms, Failed)),
     totalMetrics |-> Len(ms),
     failedMetrics |-> Names(SelectSeq(ms, Failed)),
     recommendations |-> generateRecommendations(md, ms),
     wasWhitelisted |-> FALSE]

\* parseInputs: the configuration of the run
ParseInputs ==
    /\ evalPc = "start"
    /\ config' \in Configs
    /\ evalPc' = "configured"
    /\ UNCHANGED <<metricsData, metrics, analysis>>

\* evaluateContributor(data, config, sinceDate, prContext)
EvaluateContributor ==
    /\ evalPc = "configured"
    /\ \E c \in Contributors :
         LET md == extractAllMetrics(c, config)
             ms == checkAllMetrics(md, config)
         IN  /\ metricsData' = md
             /\ metrics' = ms
             /\ analysis' = AnalysisOf(md, ms, config)
    /\ evalPc' = "done"
    /\ UNCHANGED config

ClientIdle ==
    /\ op = "none" /\ pc = "idle" /\ phase = "-"
    /\ opsLeft = 0
    /\ rateLimitStatus = Null
    /\ now = 0
    /\ attempt = 0 /\ maxRetries = 0 /\ lastError = Undefined
    /\ fnCalls = 0 /\ backoffs = <<>>
    /\ gateWait = GateNone /\ prev = "start" /\ lastCall = NoCall
    /\ fetch = FetchInit
    /\ orgsLeft = 0
    /\ result = NoResult

InitEval ==
    /\ srv \in ServerProfiles
    /\ ClientIdle
    /\ evalPc = "start"
    /\ config = <<>>
    /\ metricsData = <<>>
    /\ metrics = <<>>
    /\ analysis = <<>>
    /\ run = RunOff

NextEval ==
    \/ (ParseInputs /\ UNCHANGED <<clientVars, run>>)
    \/ (EvaluateContributor /\ UNCHANGED <<clientVars, run>>)

SpecEval == InitEval /\ [][NextEval]_vars

---------------------------------------------------------------------------
(* run(): src/src/main.ts.  The caller of the client is now run() itself:  *)
(* it starts each client operation and resumes when the operation ends.    *)

\* What parseInputs may hand to run().  trustedUser says whether the PR author is
\* in config.trustedUsers, trustedOrgs is the length of config.trustedOrgs.
RunConfigs ==
    [thresholds : {StrictThresholds},
     requiredMetrics : {DEFAULT_REQUIRED_METRICS},
     minimumStars : {minimumStars},
     enableSpamDetection : {TRUE},
     dryRun : BOOLEAN,
     onFail : {"comment", "label", "fail", "comment-and-label", "none"},
     newAccountAction : {"neutral", "require-review", "block"},
     trustedUser : BOOLEAN,
     trustedOrgs : 0..1]

\* what the extractors may find in the data fetchContributorData returned
RunContributors ==
    {c \in Contributors :
        /\ c.ageInDays \in {10, 400}
        /\ c.shape = [n |-> 10, merged |-> 2, closed |-> 5, open |-> 0]
        /\ c.stars = <<200>>
        /\ c.selfMerged = "none"
        /\ ~c.ownRepos /\ c.engaged /\ c.inRepo = "mixed"}

\* the server of a run: a retried and a permanent error, no quota telemetry,
\* the user may be missing, the first page is the only one and carries no nodes
RunServer ==
    [name |-> "run", ops |-> 4, errors |-> {e \in Errors : e.id \in {"rateLimit", "notFound"}},
     rate |-> {Absent}, user |-> BOOLEAN, createdAt |-> {}, more |-> {FALSE}]

\* core.setFailed(message)
setFailed(r) == [r EXCEPT !.failed = TRUE]
\* run() returns, or its catch block is left
Ended(r) == [r EXCEPT !.pc = "done"]
\* lines 113-120: whatever is thrown inside the try block marks the action failed
CatchReportsNothing(r) == Ended(r)
CatchBlock(r) == Ended(setFailed(r))

setWhitelistOutputs(r) == [r EXCEPT !.outputs = "whitelist"]
setActionOutputs(r) == [r EXCEPT !.outputs = "analysis"]

\* client.upsertPRComment and client.addPRLabel: executeWithRetry(fn) with the default bound
upsertPRComment == StartRetry /\ maxRetries' = MAX_RETRIES
addPRLabel == StartRetry /\ maxRetries' = MAX_RETRIES

\* lines 42-51 and 58-67: the whitelist path up to its comment; summaryThrows says
\* whether writing the job summary throws
Whitelisted(summaryThrows) ==
    IF summaryThrows
    THEN run' = CatchBlock(setWhitelistOutputs(run)) /\ UNCHANGED clientVars
    ELSE IF ~config'.dryRun
         THEN upsertPRComment /\ run' = [setWhitelistOutputs(run) EXCEPT !.pc = "whitelistComment"]
         ELSE run' = Ended(setWhitelistOutputs(run)) /\ UNCHANGED clientVars

\* handleNewAccount, lines 126-153: the record after it, and whether addPRLabel is called
handleNewAccount(r, cfg) ==
    CASE cfg.newAccountAction = "require-review" -> [r |-> r, label |-> ~cfg.dryRun]
      [] cfg.newAccountAction = "block" -> [r |-> setFailed(r), label |-> FALSE]
      [] OTHER -> [r |-> r, label |-> FALSE]

\* handleFailedCheck, lines 158-199
HandleFailedCheckLabelsInDryRun(r, cfg) ==
    CASE cfg.onFail \in {"label", "comment-and-label"} -> [r |-> r, label |-> TRUE]
      [] cfg.onFail = "fail" -> [r |-> setFailed(r), label |-> FALSE]
      [] OTHER -> [r |-> r, label |-> FALSE]
handleFailedCheck(r, cfg) ==
    CASE cfg.onFail \in {"label", "comment-and-label"} -> [r |-> r, label |-> ~cfg.dryRun]
      [] cfg.onFail = "fail" -> [r |-> setFailed(r), label |-> FALSE]
      [] OTHER -> [r |-> r, label |-> FALSE]

\* lines 103-112: what run() does once the comment is out of the way
AfterComment(r, a, cfg) ==
    IF r.isNewAccount /\ cfg.newAccountAction # "neutral" THEN handleNewAccount(r, cfg)
    ELSE IF ~a.passed THEN handleFailedCheck(r, cfg)
    ELSE [r |-> r, label |-> FALSE]

Finishing(h) ==
    IF h.label
    THEN addPRLabel /\ run' = [h.r EXCEPT !.pc = "label"]
    ELSE run' = Ended(h.r) /\ UNCHANGED clientVars

\* lines 25-69 up to the first await of the client
RunStart ==
    /\ run.pc = "start"
    /\ UNCHANGED <<evalPc, metricsData, metrics, analysis>>
    /\ \/ \* parseInputs throws on an invalid input
          /\ run' = CatchBlock(run)
          /\ UNCHANGED <<config, clientVars>>
       \/ \E cfg \in RunConfigs, prContext \in BOOLEAN, summaryThrows \in BOOLEAN :
            /\ config' = cfg
            /\ IF ~prContext
               THEN run' = Ended(setFailed(run)) /\ UNCHANGED clientVars
               ELSE IF cfg.trustedUser
               THEN Whitelisted(summaryThrows)
               ELSE IF cfg.trustedOrgs > 0
               THEN StartOrg /\ orgsLeft' = cfg.trustedOrgs /\ run' = [run EXCEPT !.pc = "org"]
               ELSE StartFetch /\ run' = [run EXCEPT !.pc = "fetch"]

\* lines 56-80: checkOrgMembership has returned
RunOrgDone ==
    /\ run.pc = "org" /\ pc = "idle" /\ result.op = "org"
    /\ UNCHANGED evalVars
    /\ IF result.value
       THEN \E summaryThrows \in BOOLEAN : Whitelisted(summaryThrows)
       ELSE StartFetch /\ run' = [run EXCEPT !.pc = "fetch"]

\* lines 80-101: fetchContributorData has returned or thrown.  isNewAccount is computed
\* by a function this repository does not show, so either value may come back.
RunFetchDone ==
    /\ run.pc = "fetch" /\ pc = "idle" /\ result.op = "fetch"
    /\ UNCHANGED config
    /\ IF result.kind = "thrown"
       THEN /\ run' = CatchBlock(run)
            /\ UNCHANGED <<evalPc, metricsData, metrics, analysis, clientVars>>
       ELSE \E c \in RunContributors, isNew \in BOOLEAN, summaryThrows \in BOOLEAN :
              LET md == extractAllMetrics(c, config)
                  ms == checkAllMetrics(md, config)
                  a == AnalysisOf(md, ms, config)
                  r == [run EXCEPT !.isNewAccount = isNew]
              IN  /\ metricsData' = md
                  /\ metrics' = ms
                  /\ analysis' = a
                  /\ evalPc' = "done"
                  /\ IF summaryThrows
                     THEN run' = CatchBlock(r) /\ UNCHANGED clientVars
                     ELSE IF ~config.dryRun
                     THEN upsertPRComment /\ run' = [setActionOutputs(r) EXCEPT !.pc = "comment"]
                     ELSE Finishing(AfterComment(setActionOutputs(r), a, config))

\* upsertPRComment has returned or thrown
RunCommentDone ==
    /\ run.pc \in {"whitelistComment", "comment"} /\ pc = "idle" /\ result.op = "retry"
    /\ UNCHANGED evalVars
    /\ IF result.kind = "thrown"
       THEN run' = CatchBlock(run) /\ UNCHANGED clientVars
       ELSE LET r == [run EXCEPT !.comments = @ + 1]
            IN  IF run.pc = "whitelistComment"
                THEN run' = Ended(r) /\ UNCHANGED clientVars
                ELSE Finishing(AfterComment(r, analysis, config))

\* addPRLabel has returned or thrown
RunLabelDone ==
    /\ run.pc = "label" /\ pc = "idle" /\ result.op = "retry"
    /\ UNCHANGED evalVars
    /\ IF result.kind = "thrown"
       THEN run' = CatchBlock(run) /\ UNCHANGED clientVars
       ELSE run' = Ended([run EXCEPT !.labels = @ + 1]) /\ UNCHANGED clientVars

InitRun ==
    /\ op = "none" /\ pc = "idle" /\ phase = "-"
    /\ srv = RunServer
    /\ opsLeft = srv.ops
    /\ rateLimitStatus = Null
    /\ now = 0
    /\ attempt = 0 /\ maxRetries = 0 /\ lastError = Undefined
    /\ fnCalls = 0 /\ backoffs = <<>>
    /\ gateWait = GateNone /\ prev = "start" /\ lastCall = NoCall
    /\ fetch = FetchInit
    /\ orgsLeft = 0
    /\ result = NoResult
    /\ EvalIdle
    /\ run = [RunOff EXCEPT !.pc = "start"]

NextRun ==
    \/ RunStart
    \/ RunOrgDone
    \/ RunFetchDone
    \/ RunCommentDone
    \/ RunLabelDone
    \/ (Gate /\ UNCHANGED <<evalVars, run>>)
    \/ (GraphQLCallFails /\ UNCHANGED <<evalVars, run>>)
    \/ (GraphQLCallSucceeds /\ UNCHANGED <<evalVars, run>>)
    \/ (FnSucceeds /\ UNCHANGED <<evalVars, run>>)
    \/ (FnFails /\ UNCHANGED <<evalVars, run>>)

SpecRun == InitRun /\ [][NextRun]_vars

---------------------------------------------------------------------------
(* The pure functions on inputs of their own.  The status and the clock    *)
(* are in rateLimitStatus and now; what a function returned is in result.  *)

InitFunctions ==
    /\ op = "none" /\ pc = "idle" /\ phase = "-"
    /\ srv = RunServer
    /\ opsLeft = 0
    /\ \/ \* a status and a clock for the governor
          /\ \E remaining \in {0, 99, 100, 101, 5000}, resetAt \in {0, 50000, 100000, 200000} :
                rateLimitStatus = [remaining |-> remaining, resetAt |-> resetAt,
                                   used |-> 5000 - remaining, limit |-> 5000]
          /\ now \in {0, 50000, 100000, 139999, 140000}
          /\ result = NoResult
       \/ \* fetched data for the extractors: pull requests, or comments and issues
          /\ rateLimitStatus = Null /\ now = 0
          /\ LET pr(owner, name, createdAt, merged, state) ==
                      [repository |-> [owner |-> [login |-> owner], name |-> name],
                       createdAt |-> createdAt, merged |-> merged, state |-> state]
                  inside == "1970-01-01T00:01:00Z"
                  PRs == { pr("acme", "app", inside, TRUE, "MERGED"),
                           pr("Acme", "App", inside, FALSE, "CLOSED"),
                           pr("acme", "app", inside, FALSE, "OPEN"),
                           pr("other", "lib", inside, TRUE, "MERGED"),
                           pr("acme", "app", "1970-01-01T00:00:10Z", TRUE, "MERGED"),
                           [repository |-> Null, createdAt |-> inside, merged |-> FALSE,
                            state |-> "CLOSED"] }
                  Reactions == UNION {[1..n -> {"THUMBS_UP", "CONFUSED", "EYES"}] : n \in 0..MaxComments}
                  Comments == UNION {[1..n -> [reactions : [nodes : Reactions]]] : n \in 0..MaxComments}
                  Issues == { <<>>,
                              <<[typename |-> "Issue", reactions |-> [nodes |-> <<"HEART">>]]>>,
                              <<[typename |-> "PullRequest", reactions |-> [nodes |-> <<"HEART">>]]>>,
                              <<[typename |-> "Issue", reactions |-> Absent]>> }
                  Data(prs, comments, issues) ==
                      [pullRequests |-> [nodes |-> prs], issueComments |-> [nodes |-> comments],
                       issueSearch |-> [nodes |-> issues]]
              IN  \/ \E prs \in UNION {[1..n -> PRs] : n \in 0..MaxPRs} :
                        result = [op |-> "fetch", kind |-> "returned", value |-> Data(prs, <<>>, <<>>)]
                  \/ \E comments \in Comments, issues \in Issues :
                        result = [op |-> "fetch", kind |-> "returned",
                                  value |-> Data(<<>>, comments, issues)]
    /\ attempt = 0 /\ maxRetries = 0 /\ lastError = Undefined
    /\ fnCalls = 0 /\ backoffs = <<>>
    /\ gateWait = GateNone /\ prev = "start" /\ lastCall = NoCall
    /\ fetch = FetchInit
    /\ orgsLeft = 0
    /\ EvalIdle
    /\ run = RunOff

\* shouldWait(status) and calculateWaitTime(status), the latter reading the clock
GovernorCalls ==
    /\ result = NoResult
    /\ result' = [op |-> "governor", kind |-> "returned",
                  value |-> [shouldWait |-> shouldWait(rateLimitStatus),
                             waitTime |-> calculateWaitTime(rateLimitStatus, now)]]
    /\ UNCHANGED <<op, pc, phase, opsLeft, srv, rateLimitStatus, now, attempt, maxRetries,
                   lastError, fnCalls, backoffs, gateWait, prev, lastCall, fetch, orgsLeft,
                   evalVars, run>>

\* extractRepoHistoryData and extractReactionData on the fetched data
ExtractCalls ==
    /\ result.op = "fetch" /\ evalPc = "off"
    /\ metricsData' = [repoHistory |-> extractRepoHistoryData(result.value),
                       reactions |-> extractReactionData(result.value)]
    /\ evalPc' = "extracted"
    /\ UNCHANGED <<clientVars, config, metrics, analysis, run>>

SpecFunctions == InitFunctions /\ [][GovernorCalls \/ ExtractCalls]_vars

---------------------------------------------------------------------------
(* Properties of the client *)

\* a step in which the physical call of executeGraphQL, or fn, threw
CallFailed == pc \in {"call", "fn"} /\ fnCalls' = fnCalls + 1 /\ ~lastCall'.ok
\* a step in which the physical call of executeGraphQL returned a response
GraphQLSucceeded == pc = "call" /\ fnCalls' = fnCalls + 1 /\ lastCall'.ok

\* C2: when the attempt with index maxRetries - 1 fails, executeWithRetry rethrows that
\* attempt's error and sleeps no backoff, whatever the class of the error; with
\* maxRetries = 1 it ends having called fn exactly once and slept nothing.
C2_FinalAttemptRethrows ==
    /\ [][(CallFailed /\ op = "retry" /\ attempt = maxRetries - 1)
             => /\ result' = [op |-> "retry", kind |-> "thrown", value |-> lastCall'.error]
                /\ backoffs' = backoffs
                /\ pc' = "idle"]_vars
    /\ [](result.op = "retry" /\ result.kind = "thrown" /\ maxRetries = 1
             => fnCalls = 1 /\ backoffs = <<>>)

C2_Witness ==
    /\ result.op = "retry" /\ result.kind = "thrown" /\ maxRetries = 1
    /\ isTransientError(result.value) /\ fnCalls = 1

\* C3: executeWithRetry(fn, n) with n >= 1 calls fn at most n times and then ends by
\* returning fn's value or by throwing; executeGraphQL makes at most 3 physical attempts
\* per logical call.
C3_AttemptsBounded ==
    /\ (op = "retry" /\ maxRetries >= 1) => fnCalls < maxRetries /\ pc = "fn"
    /\ (result.op = "retry" /\ pc = "idle" /\ maxRetries >= 1)
          => /\ fnCalls <= maxRetries
             /\ fnCalls >= 1
             /\ result.kind \in {"returned", "thrown"}
             /\ (result.kind = "returned" => result.value = "value" /\ lastCall.ok)
    /\ (pc = "call") => fnCalls < 3
    /\ (result.op \in {"fetch", "org", "rate"} /\ pc = "idle") => fnCalls <= 3

C3_Witness ==
    result.op = "fetch" /\ result.kind = "thrown" /\ fnCalls = 3 /\ Len(backoffs) = 2

\* C4: an attempt that fails with an error classified neither as rate-limit nor as
\* transient ends the retry loop at once: no backoff sleep, no further attempt, and the
\* same error is what the loop throws.
C4_OtherErrorsPropagate ==
    [][(CallFailed /\ ~isRateLimitError(lastCall'.error) /\ ~isTransientError(lastCall'.error))
          => /\ backoffs' = backoffs
             /\ attempt' = attempt
             /\ pc' \notin {"call", "fn"}
             /\ (op \in {"fetch", "retry"}
                   => result' = [op |-> op, kind |-> "thrown", value |-> lastCall'.error])]_vars

C4_Witness ==
    /\ result.kind = "thrown" /\ result.value.id = "notFound"
    /\ fnCalls = 1 /\ maxRetries = 3 /\ backoffs = <<>>

\* C5 as claimed: every physical call, retries included, is directly preceded by the gate:
\* a sleep of calculateWaitTime(status) when the stored status is low, no sleep when it is null.
C5_GateBeforeEveryAttempt ==
    pc = "call" =>
       /\ (rateLimitStatus # Null /\ rateLimitStatus.remaining < 100)
             => /\ prev = "gate"
                /\ gateWait = [waited |-> TRUE, ms |-> calculateWaitTime(rateLimitStatus, now)]
       /\ rateLimitStatus = Null => gateWait = GateNone

\* C5 as amended: the gate is evaluated once per logical call, before its first attempt:
\* with a stored status below 100 it waits calculateWaitTime(status), with a null status it
\* does not wait; a retry attempt is preceded by its backoff sleep only.
C5_GateBeforeFirstAttempt ==
    pc = "call" =>
       /\ attempt = 0 =>
            /\ prev = "gate"
            /\ (rateLimitStatus # Null /\ rateLimitStatus.remaining < 100)
                  => gateWait = [waited |-> TRUE, ms |-> calculateWaitTime(rateLimitStatus, now)]
            /\ rateLimitStatus = Null => gateWait = GateNone
       /\ attempt > 0 => prev = "backoff" /\ Len(backoffs) = attempt

C5_Witness ==
    pc = "call" /\ attempt = 0 /\ gateWait.waited /\ gateWait.ms = 60000

\* C6 as claimed: after every successful physical GraphQL call, whatever the query, the
\* stored status is the status parsed from that call's response.
C6_StatusIsParsedResponse ==
    (lastCall.ok /\ lastCall.query \in {"fetch", "org", "rate"})
        => rateLimitStatus = parseRateLimit(lastCall.rateLimit)

\* C6 as amended: a successful call whose response carries a rateLimit object stores the
\* status parsed from it; a response without one (the organisation query never asks for
\* it) leaves the stored status as it was.
C6_StatusFollowsTelemetry ==
    [][GraphQLSucceeded
          => IF lastCall'.rateLimit # Absent
             THEN rateLimitStatus' = parseRateLimit(lastCall'.rateLimit)
             ELSE rateLimitStatus' = rateLimitStatus]_vars

C6_Witness ==
    /\ lastCall.ok /\ lastCall.query = "org" /\ lastCall.rateLimit = Absent
    /\ rateLimitStatus # Null

\* C7: the stored status is null at first and changes only in a successful physical call,
\* never in a failed attempt, a backoff or a gate; a change sets remaining, resetAt, used
\* and limit together from the response.
C7_StatusChangesOnlyOnSuccess ==
    /\ rateLimitStatus = Null
    /\ [][rateLimitStatus' # rateLimitStatus
            => /\ GraphQLSucceeded
               /\ lastCall'.rateLimit # Absent
               /\ rateLimitStatus' =
                     [remaining |-> lastCall'.rateLimit.remaining,
                      resetAt   |-> DateParse(lastCall'.rateLimit.resetAt),
                      used      |-> lastCall'.rateLimit.used,
                      limit     |-> IF lastCall'.rateLimit.limit = 0 THEN 5000
                                    ELSE lastCall'.rateLimit.limit]]_vars

C7_Witness ==
    rateLimitStatus # Null /\ ~lastCall.ok /\ pc = "call" /\ Len(backoffs) = 2

\* C8: fetchContributorData requests at most 5 pages of pull requests and at most 5 pages
\* of comments, the first page included, even if every page says hasNextPage.
C8_PageCap ==
    /\ fetch.prRequests <= 5
    /\ fetch.commentRequests <= 5
    /\ (op = "fetch" /\ pc \in {"gate", "call"} /\ phase = "prPage") => fetch.pagesLoaded < 5
    /\ (op = "fetch" /\ pc \in {"gate", "call"} /\ phase = "commentPage") => fetch.pagesLoaded < 5

C8_Witness ==
    /\ result.op = "fetch" /\ result.kind = "returned"
    /\ fetch.prRequests = 5 /\ fetch.commentRequests = 5
    /\ fetch.prPageInfo.hasNextPage /\ fetch.commentPageInfo.hasNextPage

InWindow(nodes) == \A i \in 1..Len(nodes) : DateParse(nodes[i].createdAt) >= SinceDate

\* C9: every pull request and every issue comment of the returned snapshot has a
\* timestamp that is not earlier than sinceDate.
C9_SnapshotInWindow ==
    (result.op = "fetch" /\ result.kind = "returned")
        => /\ InWindow(result.value.pullRequests.nodes)
           /\ InWindow(result.value.issueComments.nodes)

\* C15: the backoff slept after the failed non-final attempt with index k is
\* min(1000 * 2^k, 60000) ms for a rate-limit error and min(500 * 2^k, 30000) ms for a
\* transient error, so that no backoff exceeds 60 s, respectively 30 s.
C15_BackoffValues ==
    [][(CallFailed /\ attempt < maxRetries - 1)
          => LET error == lastCall'.error
                 doubled == Pow2(attempt)
             IN  /\ isRateLimitError(error)
                       => backoffs' = Append(backoffs, IF 1000 * doubled < 60000
                                                       THEN 1000 * doubled ELSE 60000)
                 /\ (~isRateLimitError(error) /\ isTransientError(error))
                       => backoffs' = Append(backoffs, IF 500 * doubled < 30000
                                                       THEN 500 * doubled ELSE 30000)]_vars

C15_Witness ==
    /\ op = "retry" /\ Len(backoffs) = 7
    /\ backoffs[1] = 1000 /\ backoffs[2] = 1000
    /\ backoffs[6] = 16000 /\ backoffs[7] = 60000

---------------------------------------------------------------------------
(* Properties of the evaluation engine *)

Evaluated == evalPc = "done"

\* C1: whenever the suspicious-pattern data of an evaluation holds a CRITICAL pattern,
\* the AnalysisResult of evaluateContributor has passed = FALSE, whatever the thresholds
\* and the list of required metrics.
C1_CriticalForcesFail ==
    (Evaluated /\ metricsData.suspiciousPatterns # Absent
       /\ hasCriticalSpamPatterns(metricsData.suspiciousPatterns))
        => analysis.passed = FALSE

\* C10: with an empty list of required metrics the verdict is the conjunction of the
\* passed flags of all results; otherwise it is the conjunction of the passed flags of
\* exactly the results named in the list: a required name without a result counts as
\* passed and a result that is not named has no influence.
C10_PassStatus ==
    Evaluated =>
        analysis.passed =
            IF config.requiredMetrics = <<>>
            THEN \A m \in Range(metrics) : m.passed
            ELSE \A m \in Range(metrics) : m.name \in Range(config.requiredMetrics) => m.passed

C10_Witness ==
    /\ Evaluated
    /\ config.requiredMetrics # <<>>
    /\ \E r \in Range(config.requiredMetrics) : \A m \in Range(metrics) : m.name # r
    /\ \E r \in Range(config.requiredMetrics) : \E m \in Range(metrics) : m.name = r /\ m.passed
    /\ \E m \in Range(metrics) : ~m.passed /\ m.name \notin Range(config.requiredMetrics)
    /\ analysis.passed

\* C11 (as claimed): for every configuration the result list holds one result for each of
\* the twelve configurable metrics, in the fixed order, followed by a suspiciousPatterns
\* result: the suspicious-patterns check is always present.
C11_AlwaysThirteenResults ==
    Evaluated => Names(metrics) = VALID_METRIC_NAMES

\* C11 (amended): the result list holds one result for each of the twelve configurable
\* metrics, in the fixed order; a suspiciousPatterns result follows them exactly when
\* spam detection is enabled.
C11_TwelveAndPatternsIfEnabled ==
    Evaluated =>
        Names(metrics) = IF config.enableSpamDetection
                         THEN VALID_METRIC_NAMES
                         ELSE SubSeq(VALID_METRIC_NAMES, 1, Len(VALID_METRIC_NAMES) - 1)

C11_Witness ==
    /\ Evaluated /\ ~config.enableSpamDetection
    /\ Len(metrics) = Len(VALID_METRIC_NAMES) - 1
    /\ \A m \in Range(metrics) : m.name # "suspiciousPatterns"

\* the result of checkSuspiciousPatterns in the evaluated metrics
PatternsChecked == Evaluated /\ metricsData.suspiciousPatterns # Absent
PatternsResult == metrics[Len(metrics)]
Severities == {p.severity : p \in Range(metricsData.suspiciousPatterns.detectedPatterns)}

\* C12: checkSuspiciousPatterns returns passed = FALSE exactly when the detected patterns
\* include a CRITICAL one; without patterns, or with WARNING patterns only, it returns
\* passed = TRUE, whatever the configured thresholds.
C12_FailsIffCritical ==
    PatternsChecked =>
        /\ PatternsResult.name = "suspiciousPatterns"
        /\ PatternsResult.passed = ("CRITICAL" \notin Severities)

C12_Witness ==
    /\ PatternsChecked
    /\ Severities = {"WARNING"}
    /\ PatternsResult.passed
    /\ config.thresholds = StrictThresholds

\* the result with the given name in the evaluated metrics
ResultOf(name) == metrics[Find(metrics, name)]

NoMergedPRs == metricsData.mergerDiversity.totalMergedPRs = 0
NoResolvedPRsInRepo ==
    \/ metricsData.repoHistory.totalPRsInRepo = 0
    \/ metricsData.repoHistory.mergedPRsInRepo + metricsData.repoHistory.closedWithoutMergeInRepo = 0
NoComments == metricsData.reactions.totalComments = 0

\* C13 (as claimed): a check evaluated without data (no merged PRs, no PRs or no resolved
\* PRs in the target repository, no comments) passes when its threshold is 0 and fails
\* for every other threshold.
C13_NoDataPassesIffZeroThreshold ==
    Evaluated =>
        /\ NoMergedPRs =>
              ResultOf("mergerDiversity").passed = (config.thresholds.mergerDiversity = 0)
        /\ NoResolvedPRsInRepo =>
              ResultOf("repoHistoryMergeRate").passed
                  = (config.thresholds.repoHistoryMergeRate.num = 0)
        /\ NoComments =>
              /\ ResultOf("positiveReactions").passed = (config.thresholds.positiveReactions = 0)
              /\ ResultOf("negativeReactions").passed = (config.thresholds.negativeReactions = 0)

\* C13 (amended): without data the checks of merger diversity, repository merge rate and
\* positive reactions pass exactly when their threshold is 0; the check of negative
\* reactions, whose threshold is a maximum, passes without comments for every threshold.
C13_NoDataNeutral ==
    Evaluated =>
        /\ NoMergedPRs =>
              ResultOf("mergerDiversity").passed = (config.thresholds.mergerDiversity = 0)
        /\ NoResolvedPRsInRepo =>
              ResultOf("repoHistoryMergeRate").passed
                  = (config.thresholds.repoHistoryMergeRate.num = 0)
        /\ NoComments =>
              /\ ResultOf("positiveReactions").passed = (config.thresholds.positiveReactions = 0)
              /\ ResultOf("negativeReactions").passed

C13_Witness ==
    /\ Evaluated
    /\ NoMergedPRs /\ NoResolvedPRsInRepo /\ NoComments
    /\ config.thresholds.mergerDiversity > 0 /\ ~ResultOf("mergerDiversity").passed
    /\ config.thresholds.repoHistoryMergeRate.num > 0 /\ ~ResultOf("repoHistoryMergeRate").passed
    /\ config.thresholds.negativeReactions > 0 /\ ResultOf("negativeReactions").passed

HasCritical == metricsData.suspiciousPatterns # Absent /\ "CRITICAL" \in Severities

\* C16: if the metrics data holds a CRITICAL suspicious pattern, generateRecommendations
\* returns exactly one element, the critical-pattern recommendation, however many other
\* metrics failed.
C16_CriticalShortCircuits ==
    (Evaluated /\ HasCritical) => analysis.recommendations = <<"CRITICAL">>

C16_Witness ==
    /\ Evaluated /\ HasCritical
    /\ Len(analysis.failedMetrics) >= 4
    /\ analysis.recommendations = <<"CRITICAL">>

\* a failed metric for which generateRecommendations pushes nothing
NoSpecificRecommendation(name) ==
    \/ name = "activityConsistency" /\ metricsData.account.ageInDays < 90
    \/ /\ name = "profileCompleteness"
       /\ metricsData.profile.hasBio /\ metricsData.profile.hasCompany
       /\ metricsData.profile.followersCount # 0

\* C17: when at least one check failed and no failed metric yields a specific
\* recommendation, generateRecommendations returns exactly the one generic
\* recommendation; hence the list is not empty whenever a check failed.  (A failed
\* suspiciousPatterns check yields the critical recommendation.)
C17_GenericFallback ==
    Evaluated =>
        /\ (/\ analysis.failedMetrics # <<>>
            /\ \A name \in Range(analysis.failedMetrics) : NoSpecificRecommendation(name))
              => analysis.recommendations = <<"general">>
        /\ analysis.failedMetrics # <<>> => analysis.recommendations # <<>>

C17_Witness ==
    /\ Evaluated /\ ~HasCritical
    /\ analysis.failedMetrics = <<"activityConsistency">>
    /\ metricsData.account.ageInDays < 90
    /\ analysis.recommendations = <<"general">>

\* C18: when onlySelfMergesOnOwnRepos is true and the mergerDiversity threshold is
\* greater than 0, checkMergerDiversity returns passed = FALSE, whatever the number of
\* unique mergers.
C18_OnlySelfMergesFail ==
    (/\ Evaluated
     /\ metricsData.mergerDiversity.onlySelfMergesOnOwnRepos
     /\ config.thresholds.mergerDiversity > 0)
        => ~ResultOf("mergerDiversity").passed

C18_Witness ==
    /\ Evaluated
    /\ metricsData.mergerDiversity.onlySelfMergesOnOwnRepos
    /\ config.thresholds.mergerDiversity > 0
    /\ metricsData.mergerDiversity.uniqueMergers >= config.thresholds.mergerDiversity
    /\ ~ResultOf("mergerDiversity").passed

PatternTypes == {p.type : p \in Range(metricsData.suspiciousPatterns.detectedPatterns)}

\* C19: SPAM_PATTERN is among the detected patterns exactly when the account is younger
\* than 30 days, has more than 25 PRs and contributed to more than 10 repositories; at
\* exactly 30 days, 25 PRs or 10 repositories it is absent.
C19_SpamPatternRule ==
    PatternsChecked =>
        ("SPAM_PATTERN" \in PatternTypes)
            = (/\ metricsData.account.ageInDays < 30
               /\ metricsData.prHistory.totalPRs > 25
               /\ Len(metricsData.repoQuality.contributedRepos) > 10)

C19_Witness ==
    /\ PatternsChecked
    /\ metricsData.account.ageInDays = 30
    /\ metricsData.prHistory.totalPRs > 25
    /\ Len(metricsData.repoQuality.contributedRepos) > 10
    /\ "SPAM_PATTERN" \notin PatternTypes

\* merged PRs that went to repositories with fewer than 10 stars
LowQualityMergedPRs ==
    LET repos == metricsData.repoQuality.contributedRepos
        Few(i) == repos[i].stars < 10
        RECURSIVE Sum(_)
        Sum(i) == IF i = 0 THEN 0
                  ELSE (IF Few(i) THEN repos[i].mergedPRCount ELSE 0) + Sum(i - 1)
    IN  Sum(Len(repos))

C21_PatternsOrderedIndependent ==
    PatternsChecked =>
        LET d == metricsData.suspiciousPatterns.detectedPatterns
            Place(t) == CASE t = "SPAM_PATTERN" -> 1 [] t = "HIGH_PR_RATE" -> 2
                          [] t = "SELF_MERGE_ABUSE" -> 3 [] t = "REPO_SPAM" -> 4 [] OTHER -> 0
            age == metricsData.account.ageInDays
            prs == metricsData.prHistory.totalPRs
            repos == Len(metricsData.repoQuality.contributedRepos)
            merged == metricsData.mergerDiversity.totalMergedPRs
            average == metricsData.repoQuality.averageRepoStars
        IN  /\ \A i \in DOMAIN d : Place(d[i].type) > 0
            /\ \A i, j \in DOMAIN d : i < j => Place(d[i].type) < Place(d[j].type)
            /\ ("SPAM_PATTERN" \in PatternTypes) = (age < 30 /\ prs > 25 /\ repos > 10)
            /\ ("HIGH_PR_RATE" \in PatternTypes) = (IF age > 0 THEN prs > 2 * age ELSE prs > 2)
            /\ ("SELF_MERGE_ABUSE" \in PatternTypes)
                  = (/\ merged > 0
                     /\ 2 * metricsData.mergerDiversity.selfMergeCount > merged
                     /\ 2 * LowQualityMergedPRs > merged)
            /\ ("REPO_SPAM" \in PatternTypes) = (repos > 10 /\ average.num < 10 * average.den)

C21_Witness ==
    /\ PatternsChecked
    /\ Len(metricsData.suspiciousPatterns.detectedPatterns) = 4
    /\ metricsData.suspiciousPatterns.detectedPatterns[1].type = "SPAM_PATTERN"
    /\ metricsData.suspiciousPatterns.detectedPatterns[4].type = "REPO_SPAM"

\* C23: the accumulated pull requests and comments are the nodes of the pages in the
\* order the pages were requested, each page's nodes in the order the page had them:
\* a response only appends nodes, those of the request just answered, and the lists
\* are ordered by request and then by place in the page; so is the returned snapshot.
C23_PagesAppendedInOrder ==
    /\ [](LET Ordered(nodes) ==
                  \A i, j \in DOMAIN nodes :
                      i < j => \/ nodes[i].page < nodes[j].page
                               \/ nodes[i].page = nodes[j].page /\ nodes[i].pos < nodes[j].pos
          IN  /\ Ordered(fetch.allPRs) /\ Ordered(fetch.allComments)
              /\ (result.op = "fetch" /\ result.kind = "returned")
                    => /\ Ordered(result.value.pullRequests.nodes)
                       /\ Ordered(result.value.issueComments.nodes))
    /\ [][LET Appended(before, after, request) ==
                  /\ Len(after) >= Len(before)
                  /\ SubSeq(after, 1, Len(before)) = before
                  /\ \A i \in Len(before) + 1..Len(after) : after[i].page = request
          IN  (op = "fetch" /\ pc = "call")
                => /\ Appended(fetch.allPRs, fetch'.allPRs, fetch.prRequests)
                   /\ Appended(fetch.allComments, fetch'.allComments,
                               fetch.commentRequests)]_vars
C23_Witness ==
    /\ result.op = "fetch" /\ result.kind = "returned"
    /\ Len(fetch.allPRs) = 4 /\ fetch.prRequests = 3
    /\ fetch.allPRs[1].page = 1 /\ fetch.allPRs[2].page = 2 /\ fetch.allPRs[3].page = 2
    /\ fetch.allPRs[4].page = 3
    /\ Len(fetch.allComments) = 3 /\ fetch.allComments[3].page = 2 /\ fetch.allComments[3].pos = 2

\* C28 as claimed: no additional page request of a collection passes the cursor that
\* the request before it passed.
C28_CursorNeverRepeated ==
    [][(op = "fetch" /\ pc = "gate")
          => /\ phase = "prPage" => fetch'.prCursor # fetch.prCursor
             /\ phase = "commentPage" => fetch'.commentCursor # fetch.commentCursor]_vars
\* C28: an additional page request passes the endCursor of the latest page of its
\* collection that came with a user: the cursor after the one passed before when the
\* response just received had a user (or was the first response), and the very cursor
\* passed before, once more, when the follow-up response just received had none.
C28_CursorOfLastPageWithUser ==
    [][(op = "fetch" /\ pc = "gate")
          => /\ phase = "prPage"
                   => fetch'.prCursor = IF lastCall.user THEN fetch.prCursor + 1
                                        ELSE fetch.prCursor
             /\ phase = "commentPage"
                   => fetch'.commentCursor = IF fetch.commentRequests = 1 \/ lastCall.user
                                             THEN fetch.commentCursor + 1
                                             ELSE fetch.commentCursor]_vars
C28_Witness ==
    /\ op = "fetch" /\ pc = "call" /\ phase = "prPage"
    /\ lastCall.ok /\ ~lastCall.user
    /\ fetch.prRequests = 3 /\ fetch.prCursor = 1

\* C30: for every value of maxRetries, a finished executeWithRetry has invoked fn at
\* least once, and what it threw is the error of an invocation of fn.
C30_FnInvokedAndOwnError ==
    (result.op = "retry" /\ pc = "idle")
        => /\ fnCalls >= 1
           /\ (result.kind = "thrown" => ~lastCall.ok /\ result.value = lastCall.error)

\* C30 as the code has it: with maxRetries >= 1 fn is invoked at least once and what
\* is thrown is the error of the last invocation of fn; with maxRetries <= 0 fn is never
\* invoked and the value thrown is undefined.
C30_FnInvokedWhenMaxRetriesPositive ==
    (result.op = "retry" /\ pc = "idle")
        => IF maxRetries >= 1
           THEN /\ fnCalls >= 1
                /\ (result.kind = "thrown" => ~lastCall.ok /\ result.value = lastCall.error)
           ELSE fnCalls = 0 /\ result.kind = "thrown" /\ result.value = Undefined
C30_Witness ==
    /\ result.op = "retry" /\ pc = "idle" /\ result.kind = "thrown"
    /\ maxRetries = 3 /\ fnCalls = 3 /\ Len(backoffs) = 2
    /\ result.value = lastCall.error /\ result.value # Undefined

---------------------------------------------------------------------------
(* Properties of run(), checked on SpecRun *)

\* the step in which the first response of fetchContributorData arrives without a user
FirstResponseWithoutUser ==
    GraphQLSucceeded /\ op = "fetch" /\ phase = "first" /\ ~lastCall'.user
\* fetchContributorData has ended by throwing "User not found"
UserNotFoundThrown ==
    result.op = "fetch" /\ result.kind = "thrown" /\ result.value.id = "userNotFound"

\* C14: when the first response carries no user, fetchContributorData throws at once: it
\* sleeps no backoff, repeats nothing and asks for no further page, no physical call
\* follows, and run() ends with the action marked failed, having set no outputs and
\* written neither comment nor label.
C14_UserNotFoundFailsRun ==
    /\ [][FirstResponseWithoutUser
            => /\ result' = [op |-> "fetch", kind |-> "thrown", value |-> UserNotFound]
               /\ pc' = "idle"
               /\ backoffs' = backoffs /\ attempt' = attempt
               /\ fetch'.prRequests = 1 /\ fetch'.commentRequests = 1]_vars
    /\ [][UserNotFoundThrown
            => /\ pc' = "idle" /\ fnCalls' = fnCalls /\ backoffs' = backoffs
               /\ run'.pc = "done" /\ run'.failed]_vars
    /\ [](UserNotFoundThrown
            => run.outputs = "none" /\ run.comments = 0 /\ run.labels = 0 /\ evalPc = "off")
C14_Witness ==
    /\ UserNotFoundThrown /\ run.pc = "done" /\ run.failed /\ run.outputs = "none"
    /\ lastCall.ok /\ ~lastCall.user
    /\ fnCalls = 2 /\ Len(backoffs) = 1
    /\ config.trustedOrgs = 1

\* C24: in a dry run neither upsertPRComment nor addPRLabel is ever called, so no
\* comment and no label is written, whichever path run() takes.
C24_DryRunWritesNothing ==
    ("dryRun" \in DOMAIN config /\ config.dryRun)
        => /\ op # "retry" /\ result.op # "retry"
           /\ run.pc \notin {"whitelistComment", "comment", "label"}
           /\ run.comments = 0 /\ run.labels = 0
C24_Witness ==
    /\ run.pc = "done" /\ "dryRun" \in DOMAIN config /\ config.dryRun
    /\ evalPc = "done" /\ ~analysis.passed /\ config.onFail = "comment-and-label"
    /\ run.outputs = "analysis" /\ ~run.failed
    /\ ~(run.isNewAccount /\ config.newAccountAction # "neutral")

\* C27: a run whose evaluation ended with passed = false under on-fail 'fail' ends with
\* the action marked failed, whatever isNewAccount and new-account-action are.
C27_FailedCheckFailsAction ==
    (run.pc = "done" /\ evalPc = "done" /\ ~analysis.passed /\ config.onFail = "fail")
        => run.failed

---------------------------------------------------------------------------
(* Properties of the pure functions, checked on SpecFunctions *)

\* C22: calculateWaitTime returns 0 when remaining is above 100 or resetAt is not later
\* than the clock, and min(resetAt - now, 60000) otherwise; the result is within 0..60000.
C22_WaitTimeValue ==
    result.op = "governor"
        => LET status == rateLimitStatus
               waitTime == result.value.waitTime
           IN  /\ waitTime = IF status.remaining > 100 \/ status.resetAt <= now THEN 0
                             ELSE IF status.resetAt - now < 60000 THEN status.resetAt - now
                             ELSE 60000
               /\ 0 <= waitTime /\ waitTime <= 60000
C22_Witness ==
    /\ result.op = "governor"
    /\ rateLimitStatus.remaining = 99 /\ rateLimitStatus.resetAt = 200000 /\ now = 100000
    /\ result.value.waitTime = 60000

\* C29 as claimed: a positive wait time implies shouldWait, also at remaining = 100.
C29_WaitImpliesShouldWait ==
    (result.op = "governor" /\ result.value.waitTime > 0) => result.value.shouldWait
\* C29: a positive wait time implies remaining <= 100, and implies shouldWait for every
\* status but those with remaining = 100 exactly, where shouldWait is false.
C29_WaitImpliesShouldWaitBelowThreshold ==
    (result.op = "governor" /\ result.value.waitTime > 0)
        => /\ rateLimitStatus.remaining <= 100
           /\ result.value.shouldWait = (rateLimitStatus.remaining # 100)
C29_Witness ==
    /\ result.op = "governor"
    /\ rateLimitStatus.remaining = 100
    /\ result.value.waitTime = 50000
    /\ ~result.value.shouldWait

\* C25: the merge rate of the target repository is merged / (merged + closed without
\* merge) over the pull requests of that repository inside the window, it lies in
\* [0, 1], open pull requests do not count, and it is 0 when nothing is resolved.
C25_MergeRate ==
    evalPc = "extracted"
        => LET prs == result.value.pullRequests.nodes
               Here == {i \in DOMAIN prs :
                           /\ prs[i].repository # Null
                           /\ prs[i].repository.name \in {"app", "App"}
                           /\ prs[i].createdAt = "1970-01-01T00:01:00Z"}
               merged == Cardinality({i \in Here : prs[i].state = "MERGED"})
               closed == Cardinality({i \in Here : prs[i].state = "CLOSED"})
               rate == metricsData.repoHistory.repoMergeRate
           IN  /\ rate.den > 0 /\ 0 <= rate.num /\ rate.num <= rate.den
               /\ rate.num * (merged + closed) = merged * rate.den
               /\ (merged + closed = 0) => rate = Rate(0, 1)
C25_Witness ==
    /\ evalPc = "extracted"
    /\ metricsData.repoHistory.totalPRsInRepo = 3
    /\ metricsData.repoHistory.mergedPRsInRepo = 1
    /\ metricsData.repoHistory.closedWithoutMergeInRepo = 1
    /\ metricsData.repoHistory.repoMergeRate = Rate(1, 2)

\* C26: positiveRatio is positive / (positive + negative + neutral) over the reactions
\* of the comments and of the issues, it lies in [0, 1], and it is exactly 1/2 when
\* there is no reaction.
C26_PositiveRatio ==
    evalPc = "extracted"
        => LET comments == result.value.issueComments.nodes
               issues == result.value.issueSearch.nodes
               Counted(issue) == issue.typename = "Issue" /\ issue.reactions # Absent
               all == {<<"c", i, j>> : i \in DOMAIN comments, j \in 1..MaxComments + 1}
                      \cup {<<"i", i, j>> : i \in DOMAIN issues, j \in 1..MaxComments + 1}
               Content(t) == IF t[1] = "c" THEN comments[t[2]].reactions.nodes[t[3]]
                             ELSE issues[t[2]].reactions.nodes[t[3]]
               Exists(t) == IF t[1] = "c" THEN t[3] <= Len(comments[t[2]].reactions.nodes)
                            ELSE /\ Counted(issues[t[2]])
                                 /\ t[3] <= Len(issues[t[2]].reactions.nodes)
               total == Cardinality({t \in all : Exists(t)})
               positive == Cardinality({t \in all : Exists(t) /\ Content(t) \in {"THUMBS_UP", "HEART"}})
               ratio == metricsData.reactions.positiveRatio
           IN  /\ ratio.den > 0 /\ 0 <= ratio.num /\ ratio.num <= ratio.den
               /\ (total = 0) => ratio = Rate(1, 2)
               /\ (total > 0) => ratio.num * total = positive * ratio.den
C26_Witness ==
    /\ evalPc = "extracted"
    /\ metricsData.reactions.totalComments = 2
    /\ metricsData.reactions.positiveReactions + metricsData.reactions.negativeReactions
         + metricsData.reactions.neutralReactions = 0
    /\ metricsData.reactions.positiveRatio = Rate(1, 2)

TypeOK == pc \in {"idle", "gate", "call", "fn"}
====
